---- MODULE Spec2Model ----
(***************************************************************************)
(* solana-narrative-tracker: one invocation of main.py.                    *)
(*                                                                         *)
(* The run collects four category records from upstream providers          *)
(* (collectors/*.py), persists the bundle, renders the digest and asks the *)
(* reasoning service for narratives (analyzer.py), persists the report and *)
(* writes the site composite (main.py).                                    *)
(*                                                                         *)
(* Python values are modelled as JSON values, every one tagged with its    *)
(* type: [type |-> "dict" | "list" | "str" | "num" | "null", val |-> ...]. *)
(* Numbers are fixed-point integers; the scale of a field is the one its   *)
(* collector produces (round(x, 2) gives hundredths).                      *)
(* A Python call that may raise is modelled as a record                    *)
(* [raised |-> <exception name or "">, val |-> <value returned>].          *)
(***************************************************************************)
EXTENDS Integers, Sequences, FiniteSets, TLC

VARIABLES
    mode,          \* sys.argv[1], "--full" when absent
    pc,            \* position of main(): main, loaded, collected, analyzed, generated, exited
    upstream,      \* the providers' condition during the run (environment)
    env,           \* what analyze_with_claude found: anthropic importable, ANTHROPIC_API_KEY
    signalsFile,   \* data/signals.json
    analysisFile,  \* data/analysis.json
    siteFile,      \* site/data.json
    signals,       \* the in-memory signal bundle of main()
    analysis,      \* the report returned by run_analysis
    requests,      \* requests issued to the reasoning service (client.messages.create)
    response,      \* what the reasoning service answered to the request
    exit           \* how the process ended: exit status, message, uncaught exception

vars == <<mode, pc, upstream, env, signalsFile, analysisFile, siteFile,
          signals, analysis, requests, response, exit>>

----------------------------------------------------------------------------
(* Bounds of the model *)

\* items a provider returns per list when it answers, at most
MaxItems == 2

\* narratives in a response of the reasoning service, at most
MaxNarratives == 2

----------------------------------------------------------------------------
(* JSON / Python values *)

JNull == [type |-> "null", val |-> 0]

JNum(n) == [type |-> "num", val |-> n]

JStr(s) == [type |-> "str", val |-> s]

JList(s) == [type |-> "list", val |-> s]

JDict(r) == [type |-> "dict", val |-> r]

\* isinstance(v, list), isinstance(v, dict)
IsList(v) == v.type = "list"

IsDict(v) == v.type = "dict"

\* the empty dict {} : a function with no key
EmptyDict == JDict([k \in {} |-> JNull])

\* Python truthiness of a value
Truthy(v) ==
    CASE v.type = "null" -> FALSE
      [] v.type = "num"  -> v.val # 0
      [] v.type = "str"  -> v.val # ""
      [] v.type = "list" -> Len(v.val) > 0
      [] v.type = "dict" -> DOMAIN v.val # {}

\* d.get(k, default) on a dict value
Get(d, k, default) == IF k \in DOMAIN d.val THEN d.val[k] ELSE default

\* d[k] = v on a dict value (inserts or overwrites the key)
SetKey(d, k, v) ==
    JDict([x \in DOMAIN d.val \cup {k} |-> IF x = k THEN v ELSE d.val[x]])

\* s[:n]
Take(s, n) == SubSeq(s, 1, IF Len(s) < n THEN Len(s) ELSE n)

\* datetime.now(timezone.utc).isoformat(): the clock is not modelled, one instant
Now == "2026-02-14T00:00:00+00:00"

----------------------------------------------------------------------------
(* Number formatting of the f-strings of build_signal_digest *)

Pow10(k) == IF k = 0 THEN 1 ELSE IF k = 1 THEN 10 ELSE IF k = 2 THEN 100
            ELSE IF k = 3 THEN 1000 ELSE 10000

Abs(x) == IF x < 0 THEN 0 - x ELSE x

\* num / den rounded to the nearest integer, an exact tie to the even one
\* (num >= 0, den > 0): what round() and the 'f' format do with an exact value
RoundDiv(num, den) ==
    LET q == num \div den
        r == num % den
    IN  IF 2 * r > den THEN q + 1
        ELSE IF 2 * r = den THEN q + (q % 2)
        ELSE q

\* n written with at least w digits (zero padded), n >= 0
RECURSIVE Pad(_, _)
Pad(n, w) ==
    IF w <= 1 THEN ToString(n)
    ELSE IF n < Pow10(w - 1) THEN "0" \o Pad(n, w - 1)
    ELSE ToString(n)

\* the ',' option: thousands separators, n >= 0
RECURSIVE Group(_)
Group(n) ==
    IF n < 1000 THEN ToString(n)
    ELSE Group(n \div 1000) \o "," \o Pad(n % 1000, 3)

\* the digits of m / 10^dec: integer part (grouped under the ',' option), then the
\* fraction
FormatFixed(m, dec, comma) ==
    (IF comma THEN Group(m \div Pow10(dec)) ELSE ToString(m \div Pow10(dec)))
    \o (IF dec > 0 THEN "." \o Pad(m % Pow10(dec), dec) ELSE "")

\* format(x / 10^scale, "[+][,].<dec>f") for a fixed-point x with dec <= scale
FormatF(x, scale, dec, plus, comma) ==
    (IF x < 0 THEN "-" ELSE IF plus THEN "+" ELSE "")
    \o FormatFixed(RoundDiv(Abs(x), Pow10(scale - dec)), dec, comma)

\* {x:,.0f} of an amount kept in units of $1,000,000
FormatMillions(x) ==
    IF x = 0 THEN "0"
    ELSE (IF x < 0 THEN "-" ELSE "") \o Group(Abs(x)) \o ",000,000"

\* a value under a numeric format spec: None (and any non-number) raises TypeError
FormatNum(v, scale, dec, plus, comma) ==
    IF v.type # "num" THEN [raised |-> "TypeError", val |-> ""]
    ELSE IF scale < 0 THEN [raised |-> "", val |-> FormatMillions(v.val)]
    ELSE [raised |-> "", val |-> FormatF(v.val, scale, dec, plus, comma)]

\* a value interpolated with no format spec: str(v)
FormatStr(v) ==
    CASE v.type = "str"  -> v.val
      [] v.type = "num"  -> ToString(v.val)
      [] v.type = "null" -> "None"
      [] OTHER           -> "<object>"


----------------------------------------------------------------------------
(* Calls that may raise, and sequences *)

Ok(v) == [raised |-> "", val |-> v]

Raise(e) == [raised |-> e, val |-> JNull]

\* the first exception raised by a sequence of calls, "" when none raised
FirstRaised(calls) ==
    IF \E i \in DOMAIN calls : calls[i].raised # ""
    THEN calls[CHOOSE i \in DOMAIN calls :
                 /\ calls[i].raised # ""
                 /\ \A j \in DOMAIN calls : calls[j].raised # "" => i <= j].raised
    ELSE ""

\* the call r, then F on what it returned unless it raised
Then(r, F(_)) == IF r.raised # "" THEN r ELSE F(r.val)

\* the dict a collect() builds from the results of its calls, with collected_at;
\* the first call that raises ends collect()
Bundle(keys, calls) ==
    IF FirstRaised(calls) # "" THEN Raise(FirstRaised(calls))
    ELSE Ok(JDict([k \in {keys[i] : i \in 1..Len(keys)} \cup {"collected_at"} |->
                     IF k = "collected_at" THEN JStr(Now)
                     ELSE calls[CHOOSE i \in 1..Len(keys) : keys[i] = k].val]))

\* [f(x) for x in s]
MapSeq(s, F(_)) == [i \in 1..Len(s) |-> F(s[i])]

\* [x for x in s if P(x)]
FilterSeq(s, P(_)) == SelectSeq(s, P)

\* x inserted into a sequence of [key, item] sorted by descending key, after its equals
RECURSIVE InsertDesc(_, _)
InsertDesc(x, s) ==
    IF s = <<>> THEN <<x>>
    ELSE IF x.key > Head(s).key THEN <<x>> \o s
    ELSE <<Head(s)>> \o InsertDesc(x, Tail(s))

RECURSIVE SortKeyed(_)
SortKeyed(s) ==
    IF s = <<>> THEN <<>>
    ELSE InsertDesc(s[Len(s)], SortKeyed(SubSeq(s, 1, Len(s) - 1)))

\* s.sort(key=K, reverse=True): stable, equal keys keep their order
SortDesc(s, K(_)) ==
    LET keyed  == [i \in 1..Len(s) |-> [key |-> K(s[i]), item |-> s[i]]]
        sorted == SortKeyed(keyed)
    IN  [i \in 1..Len(s) |-> sorted[i].item]

RECURSIVE SumSeq(_)
SumSeq(s) == IF s = <<>> THEN 0 ELSE Head(s) + SumSeq(Tail(s))

RECURSIVE Concat(_)
Concat(ss) == IF ss = <<>> THEN <<>> ELSE Head(ss) \o Concat(Tail(ss))

\* x or 0 : a missing / null / zero number becomes 0
OrZero(v) == IF Truthy(v) THEN v ELSE JNum(0)

\* x or "" 
OrEmpty(v) == IF Truthy(v) THEN v ELSE JStr("")

----------------------------------------------------------------------------
(* The upstream providers.  upstream.down is the set of provider calls that  *)
(* fail (connection error, HTTP error status, timeout); a provider that is   *)
(* up answers upstream.items entities per list; upstream.nulls says that     *)
(* CoinGecko leaves the price fields of its answers null.                    *)

OnchainProviders == {"tvl", "protocols", "yields", "stablecoins", "rpc"}

GithubProviders == {"trending_new", "most_active", "high_star", "topics"}

MarketProviders == {"sol", "tokens", "trending", "categories"}

SocialProviders == {"rss", "news", "governance"}

AdapterProviders == {OnchainProviders, GithubProviders, MarketProviders, SocialProviders}

Providers == UNION AdapterProviders

\* the failure combinations explored: no call fails, one call fails, every call of
\* one adapter fails, every call fails
DownSets ==
    {{}, Providers} \cup {{p} : p \in Providers} \cup AdapterProviders

Upstreams == [down : DownSets, items : 1..MaxItems, nulls : BOOLEAN]


----------------------------------------------------------------------------
(* collectors/onchain.py *)

\* s[-n:]
LastN(s, n) == SubSeq(s, IF Len(s) > n THEN Len(s) - n + 1 ELSE 1, Len(s))

\* chain TVL j days before the newest point, in units of $1,000,000
TvlAgo(j) ==
    IF j = 0 THEN 5000
    ELSE IF j <= 13 THEN 4500 + (13 - j) * 10
    ELSE 4500 - (j - 13) * 25

\* what DeFiLlama, the yields API, the stablecoins API and the RPC node answer
OnchainResponse(up, p) ==
    CASE p = "tvl" ->
           JList([i \in 1..(10 * up.items) |->
                    JDict([date |-> JNum(i), tvl |-> JNum(TvlAgo(10 * up.items - i))])])
      [] p = "protocols" ->
           JList([i \in 1..(up.items + 2) |->
                    JDict([name      |-> JStr("protocol-" \o ToString(i)),
                           category  |-> JStr(IF i % 2 = 1 THEN "Dexes" ELSE "Lending"),
                           tvl       |-> JNum(IF i = 1 THEN 900000 ELSE 2000000 * i),
                           change_1d |-> IF i % 2 = 1 THEN JNum(125) ELSE JNull,
                           change_7d |-> IF i = 3 THEN JNum(0 - 1234) ELSE JNum(250 * i),
                           chains    |-> JList(IF i = up.items + 2 THEN <<JStr("Ethereum")>>
                                               ELSE <<JStr("Solana"), JStr("Ethereum")>>),
                           url       |-> JStr("https://p" \o ToString(i))])])
      [] p = "yields" ->
           JDict([status |-> JStr("success"),
                  data |-> JList([i \in 1..up.items |->
                    JDict([pool       |-> JStr("pool-" \o ToString(i)),
                           project    |-> JStr("project-" \o ToString(i)),
                           symbol     |-> JStr("SOL-USDC"),
                           chain      |-> JStr("Solana"),
                           tvlUsd     |-> JNum(600000 * i),
                           apy        |-> IF i = 2 THEN JNull ELSE JNum(1250),
                           apyMean30d |-> JNum(1000 + 312 * i)])])])
      [] p = "stablecoins" ->
           JDict([peggedAssets |-> JList([i \in 1..up.items |->
                    JDict([name   |-> JStr("stable-" \o ToString(i)),
                           symbol |-> JStr("USD" \o ToString(i)),
                           chainCirculating |->
                               IF i = 2 THEN JDict([Ethereum |-> JDict([current |->
                                                 JDict([peggedUSD |-> JNum(7)])])])
                               ELSE JDict([Solana |-> JDict([current |->
                                                 JDict([peggedUSD |-> JNum(1000 * i)])])])])])])
      [] p = "rpc" ->
           JDict([result |-> JList([i \in 1..up.items |->
                    JDict([numTransactions   |-> JNum(60 * (3000 + 101 * i)),
                           samplePeriodSecs |-> JNum(60)])])])

\* _get without its try/except: the failure of the request leaves _get as an exception
onchain_get_unguarded(up, p) ==
    IF p \in up.down THEN Raise("ConnectError") ELSE Ok(OnchainResponse(up, p))

\* _get: any failure of the request is caught, logged and answered with None
onchain_get(up, p) ==
    IF p \in up.down THEN Ok(JNull) ELSE Ok(OnchainResponse(up, p))

\* the change if it were taken relative to the current value instead of the old one
PctOfCurrent(current, old) ==
    IF current >= old THEN RoundDiv((current - old) * 10000, current)
    ELSE 0 - RoundDiv((old - current) * 10000, current)

\* round(((current - old) / old) * 100, 2), in hundredths of a percent
PctChange(current, old) ==
    IF current >= old THEN RoundDiv((current - old) * 10000, old)
    ELSE 0 - RoundDiv((old - current) * 10000, old)

\* the record built from the last 30 points
TvlSummary(recent, current, tvl_14d, tvl_30d) ==
    IF tvl_14d = 0 \/ tvl_30d = 0 THEN Raise("ZeroDivisionError")
    ELSE Ok(JDict([
           current_tvl    |-> JNum(current),
           tvl_14d_ago    |-> JNum(tvl_14d),
           tvl_30d_ago    |-> JNum(tvl_30d),
           change_14d_pct |-> JNum(PctChange(current, tvl_14d)),
           change_30d_pct |-> JNum(PctChange(current, tvl_30d)),
           data_points    |-> JList([i \in 1..Len(recent) |->
               JDict([date |-> recent[i].val.date, tvl |-> recent[i].val.tvl])])]))

TvlRecent(recent) ==
    TvlSummary(recent,
               recent[Len(recent)].val.tvl.val,
               IF Len(recent) >= 14 THEN recent[Len(recent) - 13].val.tvl.val
               ELSE recent[1].val.tvl.val,
               recent[1].val.tvl.val)

TvlHistory(data) ==
    IF ~Truthy(data) THEN Ok(JDict([error |-> JStr("Failed to fetch TVL")]))
    ELSE TvlRecent(LastN(data.val, 30))

get_solana_tvl_history(up) == Then(onchain_get(up, "tvl"), TvlHistory)

IsSolanaProtocol(p) ==
    /\ \E i \in 1..Len(Get(p, "chains", JList(<<>>)).val) : p.val.chains.val[i] = JStr("Solana")
    /\ OrZero(Get(p, "tvl", JNull)).val > 1000000

ProtocolKey(p) == Abs(OrZero(Get(p, "change_7d", JNull)).val)

ProtocolRecord(p) ==
    JDict([name      |-> p.val.name,
           category  |-> Get(p, "category", JStr("Unknown")),
           tvl       |-> Get(p, "tvl", JNum(0)),
           change_1d |-> OrZero(Get(p, "change_1d", JNull)),
           change_7d |-> OrZero(Get(p, "change_7d", JNull)),
           chains    |-> Get(p, "chains", JList(<<>>)),
           url       |-> Get(p, "url", JStr(""))])

TopProtocols(data) ==
    IF ~Truthy(data) THEN Ok(JList(<<>>))
    ELSE Ok(JList(MapSeq(Take(SortDesc(FilterSeq(data.val, IsSolanaProtocol), ProtocolKey),
                              30),
                         ProtocolRecord)))

get_top_protocols(up) == Then(onchain_get(up, "protocols"), TopProtocols)

IsSolanaPool(p) ==
    /\ Get(p, "chain", JNull) = JStr("Solana")
    /\ OrZero(Get(p, "tvlUsd", JNull)).val > 500000

PoolKey(p) == Abs(OrZero(Get(p, "apyMean30d", JNull)).val)

PoolRecord(p) ==
    JDict([pool          |-> Get(p, "pool", JStr("")),
           project       |-> Get(p, "project", JStr("")),
           symbol        |-> Get(p, "symbol", JStr("")),
           tvl_usd       |-> Get(p, "tvlUsd", JNum(0)),
           apy           |-> OrZero(Get(p, "apy", JNull)),
           apy_mean_30d  |-> OrZero(Get(p, "apyMean30d", JNull)),
           apy_change_7d |-> JNum(OrZero(Get(p, "apy", JNull)).val
                                  - OrZero(Get(p, "apyMean30d", JNull)).val)])

YieldOpportunities(data) ==
    IF ~Truthy(data) \/ ~IsDict(data) THEN Ok(JList(<<>>))
    ELSE Ok(JList(MapSeq(Take(SortDesc(FilterSeq(Get(data, "data", JList(<<>>)).val,
                                                IsSolanaPool),
                                       PoolKey), 20),
                         PoolRecord)))

get_yield_opportunities(up) == Then(onchain_get(up, "yields"), YieldOpportunities)

OnSolana(s) == "Solana" \in DOMAIN Get(s, "chainCirculating", EmptyDict).val

StableKey(s) == s.val.circulating_on_solana.val

\* the circulating amount of a chainCirculating entry
Circulating(sol_data) ==
    IF IsDict(sol_data)
    THEN Get(Get(sol_data, "current", EmptyDict), "peggedUSD", JNum(0))
    ELSE JNum(0)

StableRecord(s) ==
    JDict([name   |-> Get(s, "name", JStr("")),
           symbol |-> Get(s, "symbol", JStr("")),
           circulating_on_solana |-> Circulating(s.val.chainCirculating.val["Solana"])])

StablecoinFlows(data) ==
    IF ~Truthy(data) THEN Ok(JDict([error |-> JStr("Failed to fetch stablecoin data")]))
    ELSE Ok(JDict([stablecoins |-> JList(Take(
             SortDesc(MapSeq(FilterSeq(Get(data, "peggedAssets", JList(<<>>)).val, OnSolana),
                             StableRecord),
                      StableKey), 10))]))

get_stablecoin_flows(up) == Then(onchain_get(up, "stablecoins"), StablecoinFlows)

\* the whole body is inside try/except Exception: a failed request becomes an error record
NetworkPerformance(samples) ==
    IF samples = <<>> THEN Ok(JDict([error |-> JStr("No performance data")]))
    ELSE IF \E i \in 1..Len(samples) : samples[i].val.samplePeriodSecs.val = 0
    THEN Ok(JDict([error |-> JStr("division by zero")]))
    ELSE Ok(JDict([
           avg_tps |-> JNum(RoundDiv(
               SumSeq([i \in 1..Len(samples) |->
                         samples[i].val.numTransactions.val
                           \div samples[i].val.samplePeriodSecs.val]),
               Len(samples))),
           samples |-> JNum(Len(samples))]))

get_network_performance(up) ==
    IF "rpc" \in up.down THEN Ok(JDict([error |-> JStr("ConnectError")]))
    ELSE NetworkPerformance(Get(OnchainResponse(up, "rpc"), "result", JList(<<>>)).val)

onchain_collect(up) ==
    Bundle(<<"tvl", "top_protocols", "yields", "stablecoins", "network">>,
           <<get_solana_tvl_history(up), get_top_protocols(up), get_yield_opportunities(up),
             get_stablecoin_flows(up), get_network_performance(up)>>)


----------------------------------------------------------------------------
(* Strings *)

\* sub in s
Contains(s, sub) ==
    \E i \in 1..(Len(s) - Len(sub) + 1) : SubSeq(s, i, i + Len(sub) - 1) = sub

UpperLetters == "ABCDEFGHIJKLMNOPQRSTUVWXYZ"

LowerLetters == "abcdefghijklmnopqrstuvwxyz"

\* the letter c (a string of length 1) moved from the alphabet from to the alphabet to
MapLetter(c, from, to) ==
    IF \E k \in 1..26 : SubSeq(from, k, k) = c
    THEN LET k == CHOOSE k \in 1..26 : SubSeq(from, k, k) = c IN SubSeq(to, k, k)
    ELSE c

RECURSIVE MapLetters(_, _, _)
MapLetters(s, from, to) ==
    IF Len(s) = 0 THEN ""
    ELSE MapLetter(SubSeq(s, 1, 1), from, to) \o MapLetters(SubSeq(s, 2, Len(s)), from, to)

\* s.lower(), s.upper()
Lower(s) == MapLetters(s, UpperLetters, LowerLetters)

Upper(s) == MapLetters(s, LowerLetters, UpperLetters)

\* any(kw in s for kw in kws)
AnyKeyword(s, kws) == \E kw \in kws : Contains(s, kw)

\* position of the first ">" at or after i that closes a tag opened at i - 1, 0 if none
\* (a tag holds at least one character other than ">")
RECURSIVE TagEnd(_, _, _)
TagEnd(s, i, seen) ==
    IF i > Len(s) THEN 0
    ELSE IF SubSeq(s, i, i) = ">" THEN (IF seen THEN i ELSE 0)
    ELSE TagEnd(s, i + 1, TRUE)

\* re.sub(r"<[^>]+>", "", s)
RECURSIVE RemoveTags(_)
RemoveTags(s) ==
    IF Len(s) = 0 THEN ""
    ELSE IF SubSeq(s, 1, 1) = "<" /\ TagEnd(s, 2, FALSE) > 0
    THEN RemoveTags(SubSeq(s, TagEnd(s, 2, FALSE) + 1, Len(s)))
    ELSE SubSeq(s, 1, 1) \o RemoveTags(SubSeq(s, 2, Len(s)))

IsSpace(c) == c = " " \/ c = "\n" \/ c = "\t"

\* s.strip()
RECURSIVE Strip(_)
Strip(s) ==
    IF Len(s) = 0 THEN ""
    ELSE IF IsSpace(SubSeq(s, 1, 1)) THEN Strip(SubSeq(s, 2, Len(s)))
    ELSE IF IsSpace(SubSeq(s, Len(s), Len(s))) THEN Strip(SubSeq(s, 1, Len(s) - 1))
    ELSE s

\* s[:n] of a string value
TakeStr(v, n) == JStr(Take(v.val, n))


----------------------------------------------------------------------------
(* collectors/github_signals.py *)

\* the topics of get_ecosystem_topics, in the order searched
EcosystemTopics ==
    <<"solana defi", "solana nft", "solana payments", "solana ai agent", "solana mobile",
      "solana depin", "solana gaming", "solana rwa", "solana blink",
      "solana token-extensions">>

\* the items of the search API's answer to one query
GithubItems(up, tag, stars) ==
    [i \in 1..up.items |->
       JDict([full_name         |-> JStr("org/" \o tag \o "-" \o ToString(i)),
              description       |-> IF i % 2 = 1 THEN JStr("A " \o tag \o " repository")
                                    ELSE JNull,
              stargazers_count  |-> JNum(stars + 10 * (up.items - i)),
              forks_count       |-> JNum(i),
              language          |-> IF i % 2 = 1 THEN JStr("Rust") ELSE JNull,
              created_at        |-> JStr("2026-02-01T10:00:00Z"),
              updated_at        |-> JStr("2026-02-10T10:00:00Z"),
              pushed_at         |-> JStr("2026-02-12T10:00:00Z"),
              html_url          |-> JStr("https://github.com/org/" \o tag),
              topics            |-> JList(IF i % 2 = 1 THEN <<JStr("solana"), JStr(tag)>>
                                          ELSE <<>>),
              open_issues_count |-> JNum(0)])]

RepoRecord(r) ==
    JDict([name        |-> r.val.full_name,
           description |-> TakeStr(OrEmpty(Get(r, "description", JNull)), 200),
           stars       |-> r.val.stargazers_count,
           forks       |-> r.val.forks_count,
           language    |-> Get(r, "language", JNull),
           created_at  |-> r.val.created_at,
           updated_at  |-> r.val.updated_at,
           pushed_at   |-> r.val.pushed_at,
           url         |-> r.val.html_url,
           topics      |-> Get(r, "topics", JList(<<>>)),
           open_issues |-> r.val.open_issues_count])

\* _search_repos: the request and the conversion are inside try/except Exception
search_repos(up, p, tag, stars, limit) ==
    IF p \in up.down THEN Ok(JList(<<>>))
    ELSE Ok(JList(MapSeq(Take(GithubItems(up, tag, stars), limit), RepoRecord)))

get_trending_new_repos(up) == search_repos(up, "trending_new", "new", 40, 15)

get_most_active_repos(up) == search_repos(up, "most_active", "active", 300, 15)

get_high_star_repos(up) == search_repos(up, "high_star", "star", 5000, 15)

\* topic.replace("solana ", "")
TopicName(topic) ==
    IF Len(topic) >= 7 /\ SubSeq(topic, 1, 7) = "solana "
    THEN SubSeq(topic, 8, Len(topic)) ELSE topic

TopicStars(t) == t.val.total_stars.val

TopicEntry(topic, repos) ==
    JDict([topic       |-> JStr(TopicName(topic)),
           repo_count  |-> JNum(Len(repos)),
           top_repos   |-> JList(Take(repos, 3)),
           total_stars |-> JNum(SumSeq([i \in 1..Len(repos) |-> repos[i].val.stars.val]))])

EcosystemTopicEntries(found) ==
    IF FirstRaised(found) # "" THEN Raise(FirstRaised(found))
    ELSE Ok(JList(SortDesc([k \in 1..Len(EcosystemTopics) |->
                              TopicEntry(EcosystemTopics[k], found[k].val.val)],
                           TopicStars)))

get_ecosystem_topics(up) ==
    EcosystemTopicEntries([k \in 1..Len(EcosystemTopics) |->
        search_repos(up, "topics", TopicName(EcosystemTopics[k]), 100 * ((3 * k) % 7), 5)])

github_collect(up) ==
    Bundle(<<"trending_new", "most_active", "high_star", "ecosystem_topics">>,
           <<get_trending_new_repos(up), get_most_active_repos(up), get_high_star_repos(up),
             get_ecosystem_topics(up)>>)

----------------------------------------------------------------------------
(* collectors/market.py *)

\* a price CoinGecko reports, null when it leaves the price fields out
Price(up, x) == IF up.nulls THEN JNull ELSE JNum(x)

MarketResponse(up, p) ==
    CASE p = "tokens" ->
           JList([i \in 1..up.items |->
                    JDict([id               |-> JStr("token-" \o ToString(i)),
                           symbol           |-> JStr("tk" \o ToString(i)),
                           name             |-> JStr("Token " \o ToString(i)),
                           current_price    |-> Price(up, 12345 * i),
                           market_cap       |-> Price(up, 1000000 * i),
                           market_cap_rank  |-> JNum(i),
                           total_volume     |-> Price(up, 50000),
                           price_change_percentage_24h             |-> JNum(151),
                           price_change_percentage_7d_in_currency  |-> Price(up, 0 - 642),
                           price_change_percentage_14d_in_currency |-> Price(up, 1008),
                           price_change_percentage_30d_in_currency |-> JNull])])
      [] p = "sol" ->
           JDict([market_data |-> JDict([
                    current_price |-> IF up.nulls THEN EmptyDict
                                      ELSE JDict([usd |-> JNum(14250)]),
                    market_cap    |-> JDict([usd |-> JNum(70000)]),
                    total_volume  |-> JDict([usd |-> JNum(3000)]),
                    price_change_percentage_24h |-> JNum(0 - 120),
                    price_change_percentage_7d  |-> JNum(512),
                    price_change_percentage_14d |-> Price(up, 1111),
                    price_change_percentage_30d |-> JNum(0 - 2004),
                    ath |-> JDict([usd |-> JNum(29300)]),
                    ath_change_percentage |-> JDict([usd |-> JNum(0 - 5130)])])])
      [] p = "trending" ->
           JDict([coins |-> JList([i \in 1..up.items |->
                    JDict([item |-> JDict([
                             name            |-> JStr("Trend " \o ToString(i)),
                             symbol          |-> JStr("TR" \o ToString(i)),
                             market_cap_rank |-> JNum(100 + i),
                             score           |-> JNum(i - 1),
                             platforms       |-> IF i % 2 = 1
                                 THEN JDict([solana |-> JStr("So1111")])
                                 ELSE JDict([ethereum |-> JStr("0xabc")])])])])])
      [] p = "categories" ->
           JList([i \in 1..(up.items + 1) |->
                    JDict([name       |-> JStr(IF i = 1 THEN "Layer 1 (L1)"
                                               ELSE IF i % 2 = 0 THEN "Solana Meme"
                                               ELSE "DePIN"),
                           market_cap |-> JNum(1000 * i),
                           market_cap_change_24h |-> IF i = 3 THEN JNull ELSE JNum(0 - 275),
                           volume_24h |-> JNum(10 * i),
                           top_3_coins |-> JList(<<JStr("a"), JStr("b"), JStr("c")>>)])])

\* _get: any failure of the request is caught, logged and answered with None
market_get(up, p) ==
    IF p \in up.down THEN Ok(JNull) ELSE Ok(MarketResponse(up, p))

TokenRecord(t) ==
    JDict([id              |-> t.val.id,
           symbol          |-> JStr(Upper(t.val.symbol.val)),
           name            |-> t.val.name,
           price           |-> Get(t, "current_price", JNull),
           market_cap      |-> Get(t, "market_cap", JNull),
           market_cap_rank |-> Get(t, "market_cap_rank", JNull),
           volume_24h      |-> Get(t, "total_volume", JNull),
           change_24h      |-> OrZero(Get(t, "price_change_percentage_24h", JNull)),
           change_7d       |-> OrZero(Get(t, "price_change_percentage_7d_in_currency", JNull)),
           change_14d      |-> OrZero(Get(t, "price_change_percentage_14d_in_currency", JNull)),
           change_30d      |-> OrZero(Get(t, "price_change_percentage_30d_in_currency", JNull))])

EcosystemTokens(data) ==
    IF ~Truthy(data) THEN Ok(JList(<<>>)) ELSE Ok(JList(MapSeq(data.val, TokenRecord)))

get_solana_ecosystem_tokens(up) == Then(market_get(up, "tokens"), EcosystemTokens)

\* market.get(k, {}).get("usd")
Usd(market, k) == Get(Get(market, k, EmptyDict), "usd", JNull)

SolRecord(market) ==
    JDict([price_usd  |-> Usd(market, "current_price"),
           market_cap |-> Usd(market, "market_cap"),
           volume_24h |-> Usd(market, "total_volume"),
           change_24h |-> OrZero(Get(market, "price_change_percentage_24h", JNull)),
           change_7d  |-> OrZero(Get(market, "price_change_percentage_7d", JNull)),
           change_14d |-> OrZero(Get(market, "price_change_percentage_14d", JNull)),
           change_30d |-> OrZero(Get(market, "price_change_percentage_30d", JNull)),
           ath        |-> Usd(market, "ath"),
           ath_change_pct |-> OrZero(Usd(market, "ath_change_percentage"))])

SolPriceData(data) ==
    IF ~Truthy(data) THEN Ok(JDict([error |-> JStr("Failed to fetch SOL data")]))
    ELSE Ok(SolRecord(Get(data, "market_data", EmptyDict)))

get_sol_price_data(up) == Then(market_get(up, "sol"), SolPriceData)

IsSolanaCoin(c) ==
    LET platforms == Get(Get(c, "item", EmptyDict), "platforms", EmptyDict).val
    IN  \/ "solana" \in DOMAIN platforms
        \/ \E k \in DOMAIN platforms : Contains(Lower(FormatStr(platforms[k])), "solana")

TrendingRecord(c) ==
    LET item == Get(c, "item", EmptyDict)
    IN  JDict([name            |-> Get(item, "name", JNull),
               symbol          |-> Get(item, "symbol", JNull),
               market_cap_rank |-> Get(item, "market_cap_rank", JNull),
               score           |-> Get(item, "score", JNull)])

TrendingTokens(data) ==
    IF ~Truthy(data) THEN Ok(JList(<<>>))
    ELSE Ok(JList(MapSeq(FilterSeq(Get(data, "coins", JList(<<>>)).val, IsSolanaCoin),
                         TrendingRecord)))

get_trending_tokens(up) == Then(market_get(up, "trending"), TrendingTokens)

CategoryKeywords ==
    {"solana", "defi", "liquid staking", "dex", "lending", "yield", "meme", "ai", "depin",
     "rwa"}

IsRelevantCategory(c) ==
    AnyKeyword(Lower(OrEmpty(Get(c, "name", JNull)).val), CategoryKeywords)

CategoryRecord(c) ==
    JDict([name                  |-> c.val.name,
           market_cap            |-> Get(c, "market_cap", JNull),
           market_cap_change_24h |-> OrZero(Get(c, "market_cap_change_24h", JNull)),
           volume_24h            |-> Get(c, "volume_24h", JNull),
           top_3_coins           |-> JList(Take(Get(c, "top_3_coins", JList(<<>>)).val, 3))])

DefiCategories(data) ==
    IF ~Truthy(data) THEN Ok(JList(<<>>))
    ELSE Ok(JList(MapSeq(Take(FilterSeq(data.val, IsRelevantCategory), 15), CategoryRecord)))

get_defi_categories(up) == Then(market_get(up, "categories"), DefiCategories)

market_collect(up) ==
    Bundle(<<"sol", "ecosystem_tokens", "trending", "categories">>,
           <<get_sol_price_data(up), get_solana_ecosystem_tokens(up), get_trending_tokens(up),
             get_defi_categories(up)>>)


----------------------------------------------------------------------------
(* collectors/social.py *)

\* RSS_FEEDS and NEWS_FEEDS: the sources, in the order read
RSS_FEEDS == <<"Solana Foundation", "Helius Blog", "Jito Blog", "Marinade", "Jupiter">>

NEWS_FEEDS == <<"CoinDesk Solana", "TheBlock">>

\* the <item> elements of the RSS document a feed serves (the feeds serve RSS; none
\* of them serves an Atom document with <entry> elements)
FeedItems(up, source) ==
    [i \in 1..(up.items + 1) |->
       [title       |-> IF i = up.items + 1 THEN ""
                        ELSE IF i % 2 = 1 THEN " Solana update " \o ToString(i) \o " "
                        ELSE "Markets wrap " \o ToString(i),
        link        |-> "https://feed/" \o ToString(i),
        pubDate     |-> "Sat, 14 Feb 2026",
        description |-> IF i % 2 = 1 THEN "<p>News from <b>" \o source \o "</b></p> "
                        ELSE ""]]

\* _strip_html
strip_html(text) == Take(Strip(RemoveTags(text)), 500)

ArticleRecord(source, item) ==
    JDict([source    |-> JStr(source),
           title     |-> JStr(Strip(item.title)),
           url       |-> JStr(Strip(item.link)),
           published |-> JStr(Strip(item.pubDate)),
           summary   |-> JStr(strip_html(item.description))])

HasTitle(item) == item.title # ""

\* the articles of the items that have a title, at most 10
Articles(source, items) ==
    Take([i \in 1..Len(items) |-> ArticleRecord(source, items[i])], 10)

\* _parse_rss: request, parse and conversion are inside try/except Exception
parse_rss(up, p, source) ==
    IF p \in up.down THEN Ok(<<>>)
    ELSE Ok(Articles(source, FilterSeq(FeedItems(up, source), HasTitle)))

\* _parse_atom: a failure falls back to _parse_rss; an RSS document holds no atom:entry
parse_atom(up, p, source) ==
    IF p \in up.down THEN parse_rss(up, p, source) ELSE Ok(<<>>)

\* articles = _parse_rss(url, source); if not articles: articles = _parse_atom(url, source)
OrAtom(articles, up, p, source) ==
    IF articles.raised # "" THEN articles
    ELSE IF articles.val = <<>> THEN parse_atom(up, p, source)
    ELSE articles

FeedArticles(up, p, source) == OrAtom(parse_rss(up, p, source), up, p, source)

\* all_articles.extend(articles), feed after feed
Extended(found) ==
    IF FirstRaised(found) # "" THEN Raise(FirstRaised(found))
    ELSE Ok(JList(Concat([k \in 1..Len(found) |-> found[k].val])))

get_ecosystem_articles(up) ==
    Extended([k \in 1..Len(RSS_FEEDS) |-> FeedArticles(up, "rss", RSS_FEEDS[k])])

NewsKeywords == {"solana", "sol", "jupiter", "jito", "raydium", "phantom", "marinade"}

MentionsSolana(a) ==
    AnyKeyword(Lower(a.val.title.val \o " " \o a.val.summary.val), NewsKeywords)

\* the solana_keywords filter, skipped for the feed named CoinDesk Solana
Relevant(source, r) ==
    IF r.raised # "" \/ source = "CoinDesk Solana" THEN r
    ELSE Ok(FilterSeq(r.val, MentionsSolana))

get_news_articles(up) ==
    Extended([k \in 1..Len(NEWS_FEEDS) |->
                Relevant(NEWS_FEEDS[k], parse_rss(up, "news", NEWS_FEEDS[k]))])

\* the open pull requests of the SIMD repository
GovernancePulls(up) ==
    [i \in 1..up.items |->
       JDict([title      |-> JStr("SIMD-0" \o ToString(300 + i)),
              html_url   |-> JStr("https://github.com/simd/" \o ToString(i)),
              created_at |-> JStr("2026-02-0" \o ToString(i)),
              user       |-> JDict([login |-> JStr("dev" \o ToString(i))]),
              labels     |-> JList(IF i % 2 = 1 THEN <<JDict([name |-> JStr("core")])>>
                                   ELSE <<>>)])]

LabelName(l) == l.val.name

PullRecord(pr) ==
    JDict([title      |-> pr.val.title,
           url        |-> pr.val.html_url,
           created_at |-> pr.val.created_at,
           user       |-> pr.val.user.val.login,
           labels     |-> JList(MapSeq(Get(pr, "labels", JList(<<>>)).val, LabelName))])

\* the request and the conversion are inside try/except Exception
get_governance_proposals(up) ==
    IF "governance" \in up.down THEN Ok(JList(<<>>))
    ELSE Ok(JList(MapSeq(GovernancePulls(up), PullRecord)))

social_collect(up) ==
    Bundle(<<"ecosystem_articles", "news_articles", "governance">>,
           <<get_ecosystem_articles(up), get_news_articles(up), get_governance_proposals(up)>>)


----------------------------------------------------------------------------
(* analyzer.py: build_signal_digest *)

\* a piece of an f-string: the value interpolated and its format spec
\* <<scale, dec, plus, comma>> (scale < 0: an amount in units of $1,000,000), <<>> for
\* no spec; or the exception that evaluating the piece raises
Piece(v, spec) == [raised |-> "", val |-> v, spec |-> spec]

Lit(text) == Piece(JStr(text), <<>>)

Fail(e) == [raised |-> e, val |-> JNull, spec |-> <<>>]

\* {d[k]} : KeyError when the key is missing
SubStr(d, k) == IF k \in DOMAIN d.val THEN Piece(d.val[k], <<>>) ELSE Fail("KeyError")

\* {d[k]:<spec>}
SubNum(d, k, scale, dec, plus, comma) ==
    IF k \in DOMAIN d.val THEN Piece(d.val[k], <<scale, dec, plus, comma>>)
    ELSE Fail("KeyError")

\* {d.get(k, 0):<spec>}
GetNum(d, k, scale, dec, plus, comma) ==
    Piece(Get(d, k, JNum(0)), <<scale, dec, plus, comma>>)

\* v[:n] : slicing None (or a number) raises TypeError
Slice(v, n) ==
    IF v.type = "str" THEN Lit(Take(v.val, n))
    ELSE IF v.type = "list" THEN Lit("<list>")
    ELSE Fail("TypeError")

\* {d[k][:n]}
SubSlice(d, k, n) == IF k \in DOMAIN d.val THEN Slice(d.val[k], n) ELSE Fail("KeyError")

RECURSIVE JoinStr(_, _)
JoinStr(strs, sep) ==
    IF strs = <<>> THEN ""
    ELSE IF Len(strs) = 1 THEN strs[1]
    ELSE strs[1] \o sep \o JoinStr(Tail(strs), sep)

\* the text of a piece: [raised, val]
Render(piece) ==
    IF piece.raised # "" THEN [raised |-> piece.raised, val |-> ""]
    ELSE IF piece.spec = <<>> THEN [raised |-> "", val |-> FormatStr(piece.val)]
    ELSE FormatNum(piece.val, piece.spec[1], piece.spec[2], piece.spec[3], piece.spec[4])

\* the pieces of an f-string rendered in order: the first that raises ends it
Joined(rendered, sep) ==
    IF FirstRaised(rendered) # "" THEN [raised |-> FirstRaised(rendered), val |-> ""]
    ELSE [raised |-> "", val |-> JoinStr([i \in 1..Len(rendered) |-> rendered[i].val], sep)]

\* one element of parts: the f-string made of the pieces
Line(pieces) == pieces

\* an element of parts that is a plain string
Heading(text) == <<Lit(text)>>

RenderLine(pieces) == Joined(MapSeq(pieces, Render), "")

ProtocolLine(p) ==
    <<Line(<<Lit("  "), SubStr(p, "name"), Lit(" ("), SubStr(p, "category"),
             Lit("): TVL $"), SubNum(p, "tvl", 0, 0, FALSE, TRUE),
             Lit(", 7d: "), SubNum(p, "change_7d", 2, 1, TRUE, FALSE),
             Lit("%, 1d: "), SubNum(p, "change_1d", 2, 1, TRUE, FALSE), Lit("%")>>)>>

YieldLine(y) ==
    <<Line(<<Lit("  "), SubStr(y, "project"), Lit(" "), SubStr(y, "symbol"),
             Lit(": APY "), SubNum(y, "apy", 2, 1, FALSE, FALSE),
             Lit("% (30d avg: "), SubNum(y, "apy_mean_30d", 2, 1, FALSE, FALSE),
             Lit("%), TVL $"), SubNum(y, "tvl_usd", 0, 0, FALSE, TRUE)>>)>>

OnchainSection(sig) ==
    LET onchain == Get(sig, "onchain", EmptyDict)
        tvl     == Get(onchain, "tvl", EmptyDict)
        net     == Get(onchain, "network", EmptyDict)
    IN  <<Heading("## ONCHAIN SIGNALS"),
          Line(<<Lit("Solana TVL: $"), GetNum(tvl, "current_tvl", 0 - 6, 0, FALSE, TRUE)>>),
          Line(<<Lit("  14d change: "), GetNum(tvl, "change_14d_pct", 2, 1, TRUE, FALSE),
                 Lit("%")>>),
          Line(<<Lit("  30d change: "), GetNum(tvl, "change_30d_pct", 2, 1, TRUE, FALSE),
                 Lit("%")>>),
          Heading("\nTop protocols by TVL movement (7d):")>>
        \o Concat(MapSeq(Take(Get(onchain, "top_protocols", JList(<<>>)).val, 15),
                         ProtocolLine))
        \o <<Heading("\nTop yield opportunities:")>>
        \o Concat(MapSeq(Take(Get(onchain, "yields", JList(<<>>)).val, 10), YieldLine))
        \o (IF "avg_tps" \in DOMAIN net.val
            THEN <<Line(<<Lit("\nNetwork TPS (avg): "), SubStr(net, "avg_tps")>>)>>
            ELSE <<>>)

\* ', '.join(r['topics'][:5])
TopicsJoined(r) ==
    Lit(JoinStr(MapSeq(Take(r.val.topics.val, 5), FormatStr), ", "))

\* the star of the source is written "*"
TrendingRepoLines(r) ==
    <<Line(<<Lit("  "), SubStr(r, "name"), Lit(": *"), SubStr(r, "stars"), Lit(" | "),
             (IF "language" \notin DOMAIN r.val THEN Fail("KeyError")
              ELSE IF Truthy(r.val.language) THEN Piece(r.val.language, <<>>)
              ELSE Lit("N/A")),
             Lit(" | "), SubSlice(r, "description", 100)>>)>>
    \o (IF Truthy(Get(r, "topics", JNull))
        THEN <<Line(<<Lit("    topics: "), TopicsJoined(r)>>)>>
        ELSE <<>>)

ActiveRepoLine(r) ==
    <<Line(<<Lit("  "), SubStr(r, "name"), Lit(": *"), SubStr(r, "stars"),
             Lit(" | pushed: "), SubSlice(r, "pushed_at", 10)>>)>>

TopicLine(t) ==
    <<Line(<<Lit("  "), SubStr(t, "topic"), Lit(": "), SubStr(t, "repo_count"),
             Lit(" repos, "), SubStr(t, "total_stars"), Lit(" total stars")>>)>>

DeveloperSection(sig) ==
    LET github == Get(sig, "github", EmptyDict)
    IN  <<Heading("\n## DEVELOPER SIGNALS"),
          Heading("Trending new Solana repos (last 30 days):")>>
        \o Concat(MapSeq(Take(Get(github, "trending_new", JList(<<>>)).val, 10),
                         TrendingRepoLines))
        \o <<Heading("\nMost active repos (last 14 days):")>>
        \o Concat(MapSeq(Take(Get(github, "most_active", JList(<<>>)).val, 10),
                         ActiveRepoLine))
        \o <<Heading("\nEcosystem topic breakdown:")>>
        \o Concat(MapSeq(Get(github, "ecosystem_topics", JList(<<>>)).val, TopicLine))

TokenLine(t) ==
    <<Line(<<Lit("  "), SubStr(t, "symbol"), Lit(": $"),
             SubNum(t, "price", 4, 4, FALSE, FALSE),
             Lit(", 7d: "), SubNum(t, "change_7d", 2, 1, TRUE, FALSE),
             Lit("%, 14d: "), SubNum(t, "change_14d", 2, 1, TRUE, FALSE), Lit("%")>>)>>

TrendingTokenLine(t) ==
    <<Line(<<Lit("  "), SubStr(t, "name"), Lit(" ("), SubStr(t, "symbol"), Lit(")")>>)>>

CategoryLine(c) ==
    <<Line(<<Lit("  "), SubStr(c, "name"), Lit(": mcap change 24h: "),
             SubNum(c, "market_cap_change_24h", 2, 1, TRUE, FALSE), Lit("%")>>)>>

MarketSection(sig) ==
    LET market == Get(sig, "market", EmptyDict)
        sol    == Get(market, "sol", EmptyDict)
    IN  <<Heading("\n## MARKET SIGNALS"),
          Line(<<Lit("SOL: $"), GetNum(sol, "price_usd", 2, 2, FALSE, TRUE)>>),
          Line(<<Lit("  24h: "), GetNum(sol, "change_24h", 2, 1, TRUE, FALSE),
                 Lit("%, 7d: "), GetNum(sol, "change_7d", 2, 1, TRUE, FALSE),
                 Lit("%, 14d: "), GetNum(sol, "change_14d", 2, 1, TRUE, FALSE),
                 Lit("%, 30d: "), GetNum(sol, "change_30d", 2, 1, TRUE, FALSE),
                 Lit("%")>>),
          Heading("\nTop Solana ecosystem tokens (by market cap):")>>
        \o Concat(MapSeq(Take(Get(market, "ecosystem_tokens", JList(<<>>)).val, 15),
                         TokenLine))
        \o (IF Truthy(Get(market, "trending", JNull))
            THEN <<Heading("\nTrending Solana tokens on CoinGecko:")>>
                 \o Concat(MapSeq(market.val.trending.val, TrendingTokenLine))
            ELSE <<>>)
        \o <<Heading("\nRelevant categories:")>>
        \o Concat(MapSeq(Take(Get(market, "categories", JList(<<>>)).val, 10),
                         CategoryLine))

ArticleLine(a) ==
    Line(<<Lit("  ["), SubStr(a, "source"), Lit("] "), SubStr(a, "title")>>)

EcosystemArticleLines(a) ==
    <<ArticleLine(a)>>
    \o (IF Truthy(Get(a, "summary", JNull))
        THEN <<Line(<<Lit("    "), SubSlice(a, "summary", 150)>>)>>
        ELSE <<>>)

NewsArticleLine(a) == <<ArticleLine(a)>>

GovernanceLine(g) ==
    <<Line(<<Lit("  "), SubStr(g, "title"), Lit(" (by "), SubStr(g, "user"), Lit(")")>>)>>

SocialSection(sig) ==
    LET social == Get(sig, "social", EmptyDict)
    IN  <<Heading("\n## SOCIAL & NEWS SIGNALS"),
          Heading("Recent ecosystem articles:")>>
        \o Concat(MapSeq(Take(Get(social, "ecosystem_articles", JList(<<>>)).val, 15),
                         EcosystemArticleLines))
        \o <<Heading("\nCrypto news mentioning Solana:")>>
        \o Concat(MapSeq(Take(Get(social, "news_articles", JList(<<>>)).val, 10),
                         NewsArticleLine))
        \o <<Heading("\nGovernance (open SIMDs):")>>
        \o Concat(MapSeq(Take(Get(social, "governance", JList(<<>>)).val, 5),
                         GovernanceLine))

\* parts if a section were rendered only for the categories the bundle holds
DigestPartsOfPresent(sig) ==
    (IF "onchain" \in DOMAIN sig.val THEN OnchainSection(sig) ELSE <<>>)
    \o (IF "github" \in DOMAIN sig.val THEN DeveloperSection(sig) ELSE <<>>)
    \o (IF "market" \in DOMAIN sig.val THEN MarketSection(sig) ELSE <<>>)
    \o (IF "social" \in DOMAIN sig.val THEN SocialSection(sig) ELSE <<>>)

\* the list parts: one f-string per element
DigestParts(sig) ==
    OnchainSection(sig) \o DeveloperSection(sig) \o MarketSection(sig) \o SocialSection(sig)

\* "\n".join(parts); the first f-string that raises ends the call
build_signal_digest(sig) == Joined(MapSeq(DigestParts(sig), RenderLine), "\n")


----------------------------------------------------------------------------
(* The reasoning service.  A response text is a sequence of lexical chunks:   *)
(* the fence of three backticks, a word of prose (the word json right after   *)
(* a fence makes the json marker), or the text of one JSON document.          *)

\* the fence: three backticks
Fence == [kind |-> "fence", word |-> "[fence]", doc |-> JNull]

Word(w) == [kind |-> "word", word |-> w, doc |-> JNull]

Doc(v) == [kind |-> "json", word |-> "", doc |-> v]

\* the category values of the schema in SYSTEM_PROMPT
NarrativeCategories ==
    {"DeFi", "Infrastructure", "Consumer", "AI", "DePIN", "Gaming", "Payments", "Social"}

\* the i-th narrative of a response
Narrative(i, category) ==
    JDict([id              |-> JNum(i),
           title           |-> JStr("Narrative " \o ToString(i)),
           signal_strength |-> JNum(10 - i),
           category        |-> JStr(category),
           summary         |-> JStr("Why narrative " \o ToString(i) \o " is emerging"),
           evidence        |-> JList(<<JStr("signal " \o ToString(i))>>),
           signal_types    |-> JList(<<JStr("onchain"), JStr("developer")>>),
           build_ideas     |-> JList(<<JDict([title            |-> JStr("Idea"),
                                              description      |-> JStr("An idea"),
                                              complexity       |-> JStr("low"),
                                              potential_impact |-> JStr("high")])>>),
           key_projects    |-> JList(<<JStr("project1")>>),
           risk_factors    |-> JList(<<JStr("risk 1")>>)])

ReportBody(narratives) ==
    [analysis_date     |-> JStr("2026-02-14"),
     period            |-> JStr("Feb 1-14, 2026"),
     executive_summary |-> JStr("The ecosystem is growing."),
     narratives        |-> narratives]

\* a report of the schema: its narratives, and its meta (or no meta key)
ReportDoc(narratives, meta) ==
    IF meta = "none" THEN JDict(ReportBody(narratives))
    ELSE SetKey(JDict(ReportBody(narratives)), "meta",
           CASE meta = "no_count" -> JDict([data_sources |-> JList(<<JStr("DeFiLlama")>>)])
             [] meta = "count"    -> JDict([signals_analyzed |-> JNum(9999),
                                            data_sources |-> JList(<<JStr("GitHub")>>)])
             [] meta = "null"     -> JNull)

MetaShapes == {"none", "no_count", "count", "null"}

\* the categories the service gives the narratives: the i-th of a cycle through some
\* values of the schema, or a value the schema does not list
CategoryOf(naming, i) ==
    IF naming = "schema" THEN (IF i % 3 = 1 THEN "DeFi" ELSE IF i % 3 = 2 THEN "AI" ELSE "DePIN")
    ELSE IF i = 1 THEN "Memecoins" ELSE "DeFi|Infrastructure"

NarrativeLists ==
    {JList([i \in 1..n |-> Narrative(i, CategoryOf("schema", i))]) : n \in 1..MaxNarratives}
    \cup {JList([i \in 1..MaxNarratives |-> Narrative(i, CategoryOf("other", i))])}

\* the JSON documents a response may hold
ReportDocs == {ReportDoc(ns, meta) : ns \in NarrativeLists, meta \in MetaShapes}

OtherDocs ==
    {EmptyDict,
     JDict([error |-> JStr("overloaded")]),
     JDict(ReportBody(JNull)),
     JList(<<>>),
     JList(<<JStr("narratives")>>),
     JNum(5),
     JStr("no narratives found")}

\* the report of the fenced responses
FencedDoc ==
    ReportDoc(JList([i \in 1..MaxNarratives |-> Narrative(i, CategoryOf("schema", i))]), "count")

\* another report, for the responses that hold two fenced blocks
SecondDoc == ReportDoc(JList(<<Narrative(1, "Gaming")>>), "none")

\* the response texts: a bare document, and fenced ones
ResponseTexts ==
    {<<Doc(d)>> : d \in ReportDocs \cup OtherDocs}
    \cup {<<Word("Here is the analysis:"), Fence, Word("json"), Doc(FencedDoc), Fence,
            Word("Let me know.")>>,
          <<Word("Result:"), Fence, Doc(FencedDoc), Fence>>,
          <<Fence, Word("python"), Doc(FencedDoc), Fence>>,
          <<Fence, Word("pip install"), Fence, Word("then"), Fence, Word("json"),
            Doc(FencedDoc), Fence>>,
          <<Fence, Word("json"), Doc(FencedDoc)>>,
          <<Fence, Doc(SecondDoc), Fence, Word("The same as JSON:"), Fence, Word("json"),
            Doc(FencedDoc), Fence>>,
          <<Fence, Doc(FencedDoc), Fence, Word("or"), Fence, Doc(SecondDoc), Fence>>,
          <<Fence, Word("json"), Doc(FencedDoc), Fence, Word("or"), Fence, Word("json"),
            Doc(SecondDoc), Fence>>,
          <<Word("I cannot analyze these signals.")>>,
          <<Fence, Word("json"), Word("{ narratives: ["), Fence>>,
          <<>>}

\* what client.messages.create does: raises (connection error, timeout, API error
\* status) or returns a message holding a text
ServiceOutcomes ==
    {[kind |-> "error", text |-> <<>>]} \cup {[kind |-> "text", text |-> t] : t \in ResponseTexts}

NoResponse == [kind |-> "none", text |-> <<>>]


----------------------------------------------------------------------------
(* analyzer.py: analyze_with_claude, analyze *)

Environments == [anthropic : BOOLEAN, api_key : {JNull, JStr("sk-ant-key")}]

\* position of the first json marker (a fence followed by the word json), 0 if none
JsonMarkerAt(text) ==
    IF \E i \in 1..(Len(text) - 1) :
          text[i].kind = "fence" /\ text[i + 1].kind = "word" /\ text[i + 1].word = "json"
    THEN CHOOSE i \in 1..(Len(text) - 1) :
           /\ text[i].kind = "fence" /\ text[i + 1].kind = "word" /\ text[i + 1].word = "json"
           /\ \A j \in 1..(i - 1) :
                ~(text[j].kind = "fence" /\ text[j + 1].kind = "word"
                  /\ text[j + 1].word = "json")
    ELSE 0

\* position of the first fence at or after from, Len(text) + 1 if none
FenceFrom(text, from) ==
    IF \E i \in from..Len(text) : text[i].kind = "fence"
    THEN CHOOSE i \in from..Len(text) :
           text[i].kind = "fence" /\ \A j \in from..(i - 1) : text[j].kind # "fence"
    ELSE Len(text) + 1

\* the extraction if it took the first fenced block whatever its marker
ExtractFirstFence(text) ==
    IF FenceFrom(text, 1) <= Len(text)
    THEN SubSeq(text, FenceFrom(text, 1) + 1, FenceFrom(text, FenceFrom(text, 1) + 1) - 1)
    ELSE text

\* the text given to json.loads:
\*   text.split(<json marker>)[1].split(<fence>)[0] if the json marker is in the text,
\*   text.split(<fence>)[1].split(<fence>)[0] if a fence is, else the text
ExtractBlock(text) ==
    IF JsonMarkerAt(text) > 0
    THEN SubSeq(text, JsonMarkerAt(text) + 2, FenceFrom(text, JsonMarkerAt(text) + 2) - 1)
    ELSE IF FenceFrom(text, 1) <= Len(text)
    THEN SubSeq(text, FenceFrom(text, 1) + 1, FenceFrom(text, FenceFrom(text, 1) + 1) - 1)
    ELSE text

\* json.loads: the text must be exactly one JSON document
JsonLoads(text) ==
    IF Len(text) = 1 /\ text[1].kind = "json" THEN Ok(text[1].doc)
    ELSE Raise("JSONDecodeError")

\* a response text (a sequence of chunks) held as a Python str
JText(text) == [type |-> "text", val |-> text]

\* json.loads of the extracted text; a text that is no JSON document is handed back
\* under raw_response
Parsed(text, parsed) ==
    IF parsed.raised = "JSONDecodeError"
    THEN [raised |-> "", val |-> JDict([raw_response |-> JText(text)]), requests |-> 1]
    ELSE [raised |-> parsed.raised, val |-> parsed.val, requests |-> 1]

\* the digest is built, then client.messages.create is called, outside any try
Request(digest, service) ==
    IF digest.raised # "" THEN [raised |-> digest.raised, val |-> JNull, requests |-> 0]
    ELSE IF service.kind = "error"
    THEN [raised |-> "APIConnectionError", val |-> JNull, requests |-> 1]
    ELSE Parsed(ExtractBlock(service.text), JsonLoads(ExtractBlock(service.text)))

\* analyze_with_claude: [raised, val, requests] with requests the number of calls of
\* client.messages.create
analyze_with_claude(sig, e, service) ==
    IF ~e.anthropic THEN [raised |-> "", val |-> EmptyDict, requests |-> 0]
    ELSE IF ~Truthy(e.api_key) THEN [raised |-> "", val |-> EmptyDict, requests |-> 0]
    ELSE Request(build_signal_digest(sig), service)

\* the categories of a bundle that are dicts, and the fields of one that are lists
DictKeys(sig) == {c \in DOMAIN sig.val : IsDict(sig.val[c])}

ListKeys(category) == {f \in DOMAIN category.val : IsList(category.val[f])}

RECURSIVE SumOver(_, _)
SumOver(S, f) ==
    IF S = {} THEN 0
    ELSE LET x == CHOOSE x \in S : TRUE IN f[x] + SumOver(S \ {x}, f)

\* the count if analyze added 1 per list field instead of its length
CountListFields(sig) ==
    SumOver(DictKeys(sig), [c \in DictKeys(sig) |-> Cardinality(ListKeys(sig.val[c]))])

\* the count of analyze: total += len(v) for every list v of every dict category
CountSignals(sig) ==
    SumOver(DictKeys(sig),
            [c \in DictKeys(sig) |->
               SumOver(ListKeys(sig.val[c]),
                       [f \in ListKeys(sig.val[c]) |-> Len(sig.val[c].val[f].val)])])

\* "narratives" in result
HasNarratives(result) ==
    CASE result.type = "dict" -> Ok("narratives" \in DOMAIN result.val)
      [] result.type = "list" ->
           Ok(\E i \in 1..Len(result.val) :
                result.val[i].type = "str" /\ result.val[i].val = "narratives")
      [] result.type = "str"  -> Ok(Contains(result.val, "narratives"))
      [] OTHER                -> Raise("TypeError")

\* the count set with setdefault: the count the service gave is kept when it gave one
KeepServiceCount(result, total) ==
    IF result.type # "dict" THEN Raise("AttributeError")
    ELSE IF ~IsDict(Get(result, "meta", EmptyDict)) THEN Raise("TypeError")
    ELSE IF "signals_analyzed" \in DOMAIN Get(result, "meta", EmptyDict).val
    THEN Ok(SetKey(result, "meta", Get(result, "meta", EmptyDict)))
    ELSE Ok(SetKey(result, "meta",
                   SetKey(Get(result, "meta", EmptyDict), "signals_analyzed", JNum(total))))

\* result["meta"] = result.get("meta", {}); result["meta"]["signals_analyzed"] = total
SetSignalsAnalyzed(result, total) ==
    IF result.type # "dict" THEN Raise("AttributeError")
    ELSE IF ~IsDict(Get(result, "meta", EmptyDict)) THEN Raise("TypeError")
    ELSE Ok(SetKey(result, "meta",
                   SetKey(Get(result, "meta", EmptyDict), "signals_analyzed", JNum(total))))

\* len(result['narratives']) of the log line
Sized(v) == v.type \in {"list", "dict", "str"}

FallbackReport(digest, total) ==
    JDict([analysis_date     |-> JStr(Now),
           period            |-> JStr("Current fortnight"),
           executive_summary |-> JStr("Analysis pending - raw signals collected successfully."),
           narratives        |-> JList(<<>>),
           raw_digest        |-> JStr(digest),
           meta |-> JDict([signals_analyzed |-> JNum(total),
                           data_sources |-> JList(<<JStr("DeFiLlama"), JStr("GitHub"),
                                                    JStr("CoinGecko"), JStr("RSS Feeds"),
                                                    JStr("Solana RPC")>>),
                           status |-> JStr("raw_signals_only")])])

\* a narrative with a category outside the schema moved to Infrastructure
Repaired(narrative) ==
    IF IsDict(narrative) /\ "category" \in DOMAIN narrative.val
       /\ narrative.val.category.val \notin NarrativeCategories
    THEN SetKey(narrative, "category", JStr("Infrastructure"))
    ELSE narrative

\* analyze if it repaired the report it accepts into the schema
AcceptedRepaired(result, fallback, total) ==
    IF ~IsDict(result) \/ "narratives" \notin DOMAIN result.val THEN Ok(fallback)
    ELSE IF ~IsList(result.val.narratives) \/ ~IsDict(Get(result, "meta", EmptyDict))
    THEN Raise("TypeError")
    ELSE Ok(SetKey(SetKey(result, "narratives",
                          JList(MapSeq(result.val.narratives.val, Repaired))),
                   "meta",
                   SetKey(Get(result, "meta", EmptyDict), "signals_analyzed", JNum(total))))

\* if result and "narratives" in result: the report with the count set; else the
\* fallback report
Accepted(result, fallback, total) ==
    IF ~Truthy(result) THEN Ok(fallback)
    ELSE IF HasNarratives(result).raised # "" THEN Raise(HasNarratives(result).raised)
    ELSE IF ~HasNarratives(result).val THEN Ok(fallback)
    ELSE IF SetSignalsAnalyzed(result, total).raised # ""
    THEN Raise(SetSignalsAnalyzed(result, total).raised)
    ELSE IF ~Sized(result.val.narratives) THEN Raise("TypeError")
    ELSE SetSignalsAnalyzed(result, total)

Outcome(called, report) ==
    IF called.raised # ""
    THEN [raised |-> called.raised, val |-> JNull, requests |-> called.requests]
    ELSE [raised |-> report.raised, val |-> report.val, requests |-> called.requests]

Analyzed(digest, total, called) ==
    IF digest.raised # "" THEN [raised |-> digest.raised, val |-> JNull, requests |-> 0]
    ELSE Outcome(called, Accepted(called.val, FallbackReport(digest.val, total), total))

\* analyze: [raised, val, requests]
analyze(sig, e, service) ==
    Analyzed(build_signal_digest(sig), CountSignals(sig), analyze_with_claude(sig, e, service))


----------------------------------------------------------------------------
(* main.py *)

Modes == {"--full", "--collect-only", "--analyze-only"}

\* a file of the data or site directory: absent, or holding a JSON document
NoFile == [written |-> FALSE, doc |-> JNull]

\* the JSON document json.dump writes for a value: a dict becomes an object, a list an
\* array, a str a string, an int or float a number, None null; anything else is written
\* as the string default=str makes of it
RECURSIVE JsonEncode(_)
JsonEncode(v) ==
    CASE v.type = "dict" ->
           [type |-> "object", val |-> [k \in DOMAIN v.val |-> JsonEncode(v.val[k])]]
      [] v.type = "list" ->
           [type |-> "array", val |-> [i \in 1..Len(v.val) |-> JsonEncode(v.val[i])]]
      [] v.type = "num"  -> [type |-> "number", val |-> v.val]
      [] v.type = "null" -> [type |-> "null", val |-> 0]
      [] OTHER           -> [type |-> "string", val |-> v.val]

\* the value json.load reads from a JSON document: an object becomes a dict, an array a
\* list, a string a str, a number an int or float, null None
RECURSIVE JsonDecode(_)
JsonDecode(j) ==
    CASE j.type = "object" -> JDict([k \in DOMAIN j.val |-> JsonDecode(j.val[k])])
      [] j.type = "array"  -> JList([i \in 1..Len(j.val) |-> JsonDecode(j.val[i])])
      [] j.type = "number" -> JNum(j.val)
      [] j.type = "null"   -> JNull
      [] OTHER             -> JStr(j.val)

\* json.load if it read the numbers of the document as text
RECURSIVE JsonDecodeNumbersAsText(_)
JsonDecodeNumbersAsText(j) ==
    CASE j.type = "object" ->
           JDict([k \in DOMAIN j.val |-> JsonDecodeNumbersAsText(j.val[k])])
      [] j.type = "array"  ->
           JList([i \in 1..Len(j.val) |-> JsonDecodeNumbersAsText(j.val[i])])
      [] j.type = "number" -> JStr(ToString(j.val))
      [] j.type = "null"   -> JNull
      [] OTHER             -> JStr(j.val)

JsonLoadNumbersAsText(file) == JsonDecodeNumbersAsText(file.doc)

\* json.dump(value, f, indent=2, default=str): the file holds the JSON document
JsonDump(value) == [written |-> TRUE, doc |-> JsonEncode(value)]

\* json.load(f)
JsonLoad(file) == JsonDecode(file.doc)

\* the four collect() calls and the timestamp of collect_all: [raised, val]
CollectSignals(up) ==
    Bundle(<<"onchain", "github", "market", "social">>,
           <<onchain_collect(up), github_collect(up), market_collect(up), social_collect(up)>>)

Running == [code |-> 0, error |-> "", stage |-> "", message |-> ""]

\* the process ends: sys.exit(code), the return of main(), or an uncaught exception
\* (Python prints the traceback and exits with status 1)
Exited(code, error, stage, message) ==
    [code |-> code, error |-> error, stage |-> stage, message |-> message]

\* the outcomes of client.messages.create to explore: it is called only with the
\* package and the credential present
Outcomes(e) == IF e.anthropic /\ Truthy(e.api_key) THEN ServiceOutcomes ELSE {NoResponse}

\* the highlights if recent_news were the ten first of the merged articles
HighlightsMergedFirst(sig) ==
    LET market == Get(sig, "market", EmptyDict)
        onchain == Get(sig, "onchain", EmptyDict)
        github == Get(sig, "github", EmptyDict)
        social == Get(sig, "social", EmptyDict)
    IN  JDict([sol_price      |-> Get(market, "sol", EmptyDict),
               tvl            |-> Get(onchain, "tvl", EmptyDict),
               top_movers     |-> JList(Take(Get(onchain, "top_protocols", JList(<<>>)).val, 5)),
               trending_repos |-> JList(Take(Get(github, "trending_new", JList(<<>>)).val, 5)),
               recent_news    |-> JList(
                   Take(Get(social, "ecosystem_articles", JList(<<>>)).val
                        \o Get(social, "news_articles", JList(<<>>)).val, 10))])

\* the highlights of generate_site
Highlights(sig) ==
    LET market == Get(sig, "market", EmptyDict)
        onchain == Get(sig, "onchain", EmptyDict)
        github == Get(sig, "github", EmptyDict)
        social == Get(sig, "social", EmptyDict)
    IN  JDict([sol_price      |-> Get(market, "sol", EmptyDict),
               tvl            |-> Get(onchain, "tvl", EmptyDict),
               top_movers     |-> JList(Take(Get(onchain, "top_protocols", JList(<<>>)).val, 5)),
               trending_repos |-> JList(Take(Get(github, "trending_new", JList(<<>>)).val, 5)),
               recent_news    |-> JList(
                   Take(Get(social, "ecosystem_articles", JList(<<>>)).val, 5)
                   \o Take(Get(social, "news_articles", JList(<<>>)).val, 5))])

SiteData(report, sig) ==
    JDict([generated_at |-> JStr(Now), analysis |-> report, highlights |-> Highlights(sig)])

\* collect_all: the collectors (c is what they gave), then the bundle written to
\* data/signals.json
collect_all(c, disk_ok, next_pc) ==
    /\ UNCHANGED <<mode, upstream, env, analysisFile, siteFile, analysis, requests, response>>
    /\ IF c.raised # ""
       THEN /\ pc' = "exited"
            /\ exit' = Exited(1, c.raised, "collect", "")
            /\ UNCHANGED <<signals, signalsFile>>
       ELSE IF ~disk_ok
       THEN /\ pc' = "exited"
            /\ exit' = Exited(1, "OSError", "signals.json", "")
            /\ signals' = c.val
            /\ UNCHANGED signalsFile
       ELSE /\ pc' = next_pc
            /\ signals' = c.val
            /\ signalsFile' = JsonDump(c.val)
            /\ exit' = IF next_pc = "exited" THEN Exited(0, "", "", "") ELSE exit

\* main, mode --collect-only
CollectOnly ==
    /\ pc = "main" /\ mode = "--collect-only"
    /\ \E disk_ok \in BOOLEAN : collect_all(CollectSignals(upstream), disk_ok, "exited")

\* main if it returned instead of sys.exit(1) when data/signals.json is missing
ReturnWhenMissing ==
    /\ pc = "main" /\ mode = "--analyze-only"
    /\ ~signalsFile.written
    /\ pc' = "exited"
    /\ exit' = Exited(0, "", "main", "ERROR: No signals.json found. Run collection first.")
    /\ UNCHANGED <<mode, upstream, env, signalsFile, analysisFile, siteFile, signals,
                   analysis, requests, response>>

\* main, mode --analyze-only, no data/signals.json
AnalyzeOnlyMissing ==
    /\ pc = "main" /\ mode = "--analyze-only"
    /\ ~signalsFile.written
    /\ pc' = "exited"
    /\ exit' = Exited(1, "", "main", "ERROR: No signals.json found. Run collection first.")
    /\ UNCHANGED <<mode, upstream, env, signalsFile, analysisFile, siteFile, signals,
                   analysis, requests, response>>

\* main, mode --analyze-only: the bundle is read from data/signals.json
AnalyzeOnlyLoad ==
    /\ pc = "main" /\ mode = "--analyze-only"
    /\ signalsFile.written
    /\ signals' = JsonLoad(signalsFile)
    /\ pc' = "loaded"
    /\ UNCHANGED <<mode, upstream, env, signalsFile, analysisFile, siteFile, analysis,
                   requests, response, exit>>

\* main, full run: collect_all
FullCollect ==
    /\ pc = "main" /\ mode = "--full"
    /\ \E disk_ok \in BOOLEAN : collect_all(CollectSignals(upstream), disk_ok, "collected")

\* run_analysis: analyze (a is what it gave), then the report written to
\* data/analysis.json
run_analysis(a, service, disk_ok) ==
    /\ requests' = requests + a.requests
    /\ response' = IF a.requests > 0 THEN service ELSE response
    /\ UNCHANGED <<mode, upstream, env, signalsFile, siteFile, signals>>
    /\ IF a.raised # ""
       THEN /\ pc' = "exited"
            /\ exit' = Exited(1, a.raised, "analyze", "")
            /\ UNCHANGED <<analysis, analysisFile>>
       ELSE IF ~disk_ok
       THEN /\ pc' = "exited"
            /\ exit' = Exited(1, "OSError", "analysis.json", "")
            /\ analysis' = a.val
            /\ UNCHANGED analysisFile
       ELSE /\ pc' = "analyzed"
            /\ analysis' = a.val
            /\ analysisFile' = JsonDump(a.val)
            /\ UNCHANGED exit

RunAnalysis ==
    /\ pc \in {"collected", "loaded"}
    /\ \E service \in Outcomes(env), disk_ok \in BOOLEAN :
         run_analysis(analyze(signals, env, service), service, disk_ok)

\* generate_site: the composite written to site/data.json
GenerateSite ==
    /\ pc = "analyzed"
    /\ \E disk_ok \in BOOLEAN :
         IF disk_ok
         THEN /\ siteFile' = JsonDump(SiteData(analysis, signals))
              /\ pc' = "generated"
              /\ UNCHANGED exit
         ELSE /\ pc' = "exited"
              /\ exit' = Exited(1, "OSError", "data.json", "")
              /\ UNCHANGED siteFile
    /\ UNCHANGED <<mode, upstream, env, signalsFile, analysisFile, signals, analysis,
                   requests, response>>

\* the end of main: the summary of the full run, or the return of --analyze-only
Finish ==
    /\ pc = "generated"
    /\ pc' = "exited"
    /\ exit' = Exited(0, "", "",
                 IF mode # "--full" THEN ""
                 ELSE IF Len(Get(analysis, "narratives", JList(<<>>)).val) > 0
                 THEN "Done! narratives detected."
                 ELSE "Done! Raw signals collected (analysis requires ANTHROPIC_API_KEY).")
    /\ UNCHANGED <<mode, upstream, env, signalsFile, analysisFile, siteFile, signals,
                   analysis, requests, response>>

\* the bundle an earlier --collect-only run left in data/signals.json
PriorSignalsFile(c) == IF c.raised # "" THEN NoFile ELSE JsonDump(c.val)

Init ==
    /\ mode \in Modes
    /\ pc = "main"
    /\ upstream \in Upstreams
    /\ env \in Environments
    /\ signalsFile \in (IF mode = "--analyze-only" THEN {NoFile, PriorSignalsFile(CollectSignals(upstream))}
                        ELSE {NoFile})
    /\ analysisFile = NoFile
    /\ siteFile = NoFile
    /\ signals = JNull
    /\ analysis = JNull
    /\ requests = 0
    /\ response = NoResponse
    /\ exit = Running

Next ==
    \/ CollectOnly
    \/ AnalyzeOnlyMissing
    \/ AnalyzeOnlyLoad
    \/ FullCollect
    \/ RunAnalysis
    \/ GenerateSite
    \/ Finish

Spec == Init /\ [][Next]_vars


----------------------------------------------------------------------------
(* build_signal_digest on its own: the bundles it may be handed (analyze is  *)
(* also given whatever data/signals.json holds), and one call on each.       *)

\* the report categories of the bundle, as keyed in it (developer signals under github)
BundleCategories == {"onchain", "github", "market", "social"}

\* entities in the one long list of a bundle: more than the largest cap
LongLen == 16

\* the largest of the truncation caps of build_signal_digest
LargestCap == 15

\* the lists of entity records that build_signal_digest renders
DigestLists ==
    {"top_protocols", "yields", "trending_new", "most_active", "ecosystem_topics",
     "ecosystem_tokens", "trending", "categories", "ecosystem_articles",
     "news_articles", "governance"}

\* the optional text fields of an entity (description, language, topics, summary):
\* filled, empty, or (topics and summary) not there
FieldShapes == {"full", "empty", "missing"}

\* d without the keys ks
DelKeys(d, ks) == JDict([x \in DOMAIN d.val \ ks |-> d.val[x]])

\* the i-th entity of a list, with the fields its collector gives it
Entity(field, i, shape) ==
    CASE field = "top_protocols" ->
           JDict([name      |-> JStr("protocol-" \o ToString(i)),
                  category  |-> JStr("Dexes"),
                  tvl       |-> JNum(2000000 + i),
                  change_1d |-> JNum(125),
                  change_7d |-> JNum(250)])
      [] field = "yields" ->
           JDict([project      |-> JStr("project-" \o ToString(i)),
                  symbol       |-> JStr("SOL-USDC"),
                  tvl_usd      |-> JNum(600000 + i),
                  apy          |-> JNum(1250),
                  apy_mean_30d |-> JNum(1312)])
      [] field \in {"trending_new", "most_active"} ->
           JDict([name        |-> JStr("org/repo-" \o ToString(i)),
                  description |-> JStr(IF shape = "full" THEN "A repository" ELSE ""),
                  stars       |-> JNum(100 + i),
                  language    |-> IF shape = "full" THEN JStr("Rust") ELSE JNull,
                  pushed_at   |-> JStr("2026-02-12T10:00:00Z"),
                  topics      |-> JList(IF shape = "full" THEN <<JStr("solana"), JStr("defi")>>
                                        ELSE <<>>)])
      [] field = "ecosystem_topics" ->
           JDict([topic       |-> JStr("topic-" \o ToString(i)),
                  repo_count  |-> JNum(5),
                  top_repos   |-> JList(<<>>),
                  total_stars |-> JNum(40 + i)])
      [] field = "ecosystem_tokens" ->
           JDict([symbol     |-> JStr("TOK" \o ToString(i)),
                  price      |-> JNum(12345),
                  change_7d  |-> JNum(321),
                  change_14d |-> JNum(0 - 654)])
      [] field = "trending" ->
           JDict([name   |-> JStr("coin-" \o ToString(i)),
                  symbol |-> JStr("C" \o ToString(i))])
      [] field = "categories" ->
           JDict([name                  |-> JStr("Solana category " \o ToString(i)),
                  market_cap_change_24h |-> JNum(150)])
      [] field \in {"ecosystem_articles", "news_articles"} ->
           JDict([source  |-> JStr("Helius Blog"),
                  title   |-> JStr("Article " \o ToString(i)),
                  summary |-> JStr(IF shape = "full" THEN "What happened" ELSE "")])
      [] field = "governance" ->
           JDict([title |-> JStr("SIMD-" \o ToString(i)),
                  user  |-> JStr("author")])

\* the list of a bundle under the key field: LongLen entities when it is the long one
Entities(field, long, shape) ==
    JList([i \in 1..(IF long = field THEN LongLen ELSE 1) |->
             IF shape = "missing" THEN DelKeys(Entity(field, i, shape), {"topics", "summary"})
             ELSE Entity(field, i, shape)])

\* the category record under the key c
DigestCategory(c, long, shape) ==
    CASE c = "onchain" ->
           JDict([tvl           |-> JDict([current_tvl    |-> JNum(5000),
                                           change_14d_pct |-> JNum(1111),
                                           change_30d_pct |-> JNum(0 - 250)]),
                  top_protocols |-> Entities("top_protocols", long, shape),
                  yields        |-> Entities("yields", long, shape),
                  network       |-> JDict([avg_tps |-> JNum(3101), samples |-> JNum(10)])])
      [] c = "github" ->
           JDict([trending_new     |-> Entities("trending_new", long, shape),
                  most_active      |-> Entities("most_active", long, shape),
                  ecosystem_topics |-> Entities("ecosystem_topics", long, shape)])
      [] c = "market" ->
           JDict([sol              |-> JDict([price_usd  |-> JNum(18055),
                                              change_24h |-> JNum(120),
                                              change_7d  |-> JNum(0 - 340),
                                              change_14d |-> JNum(560),
                                              change_30d |-> JNum(1200)]),
                  ecosystem_tokens |-> Entities("ecosystem_tokens", long, shape),
                  trending         |-> Entities("trending", long, shape),
                  categories       |-> Entities("categories", long, shape)])
      [] c = "social" ->
           JDict([ecosystem_articles |-> Entities("ecosystem_articles", long, shape),
                  news_articles      |-> Entities("news_articles", long, shape),
                  governance         |-> Entities("governance", long, shape)])

\* a bundle without the categories of missing
DigestBundle(missing, long, shape) ==
    JDict([c \in (BundleCategories \ missing) \cup {"collected_at"} |->
             IF c = "collected_at" THEN JStr(Now) ELSE DigestCategory(c, long, shape)])

DigestBundles ==
    {DigestBundle(missing, long, shape) :
        missing \in SUBSET BundleCategories,
        long \in DigestLists \cup {"none"},
        shape \in FieldShapes}

\* the state after the call: the digest returned, or the exception raised
Synthesized(digest) ==
    /\ pc' = "digest"
    /\ analysis' = IF digest.raised = "" THEN JStr(digest.val) ELSE JNull
    /\ exit' = IF digest.raised = "" THEN exit ELSE Exited(1, digest.raised, "digest", "")
    /\ UNCHANGED <<mode, upstream, env, signalsFile, analysisFile, siteFile, signals,
                   requests, response>>

\* one call of build_signal_digest on the bundle
Synthesize ==
    /\ pc = "bundle"
    /\ Synthesized(build_signal_digest(signals))

InitDigest ==
    /\ mode = "--analyze-only"
    /\ pc = "bundle"
    /\ upstream = [down |-> {}, items |-> 1, nulls |-> FALSE]
    /\ env = [anthropic |-> FALSE, api_key |-> JNull]
    /\ signalsFile = NoFile
    /\ analysisFile = NoFile
    /\ siteFile = NoFile
    /\ signals \in DigestBundles
    /\ analysis = JNull
    /\ requests = 0
    /\ response = NoResponse
    /\ exit = Running

NextDigest == Synthesize

DigestSpec == InitDigest /\ [][NextDigest]_vars


----------------------------------------------------------------------------
(* Properties of analyze (analyzer.py) and of the run (main.py) *)

\* analyze was called and returned a report / was called and raised
AnalyzeReturned == analysis # JNull

AnalyzeRaised == pc = "exited" /\ exit.stage = "analyze"

\* the credential or the client package is absent
Unavailable == ~env.anthropic \/ ~Truthy(env.api_key)

\* what json.loads makes of the block extracted from the response received
ReceivedDoc == JsonLoads(ExtractBlock(response.text))

\* a text was received that holds no parseable document
MalformedResponse == response.kind = "text" /\ ReceivedDoc.raised # ""

\* a text was received that holds a report of the schema: 1 to 8 narratives, and no
\* meta or a meta object
ValidResponse ==
    /\ response.kind = "text"
    /\ ReceivedDoc.raised = ""
    /\ IsDict(ReceivedDoc.val)
    /\ "narratives" \in DOMAIN ReceivedDoc.val.val
    /\ IsList(ReceivedDoc.val.val.narratives)
    /\ Len(ReceivedDoc.val.val.narratives.val) \in 1..8
    /\ ("meta" \in DOMAIN ReceivedDoc.val.val => IsDict(ReceivedDoc.val.val.meta))

\* the fallback report: no narratives, status raw_signals_only, the digest embedded
IsFallback(report) ==
    /\ IsDict(report)
    /\ {"narratives", "meta", "raw_digest"} \subseteq DOMAIN report.val
    /\ IsList(report.val.narratives) /\ report.val.narratives.val = <<>>
    /\ IsDict(report.val.meta)
    /\ "status" \in DOMAIN report.val.meta.val
    /\ report.val.meta.val.status = JStr("raw_signals_only")
    /\ report.val.raw_digest.type = "str" /\ report.val.raw_digest.val # ""

\* the write of the named file raised and ended the run
WriteFailed(file) == pc = "exited" /\ exit.error = "OSError" /\ exit.stage = file

\* C1: when the service answers a text that cannot be parsed as structured data,
\* analyze returns a report with narratives = [] that carries a raw-response field
\* equal to the original response text, and not the digest.
C1_MalformedResponseKeepsRawText ==
    MalformedResponse =>
        /\ AnalyzeReturned
        /\ IsDict(analysis)
        /\ "narratives" \in DOMAIN analysis.val
        /\ IsList(analysis.val.narratives) /\ analysis.val.narratives.val = <<>>
        /\ "raw_response" \in DOMAIN analysis.val
        /\ analysis.val.raw_response = JText(response.text)
        /\ "raw_digest" \notin DOMAIN analysis.val

\* C2: when the credential and the client are present and the single request fails,
\* analyze does not raise and issues no second request: it returns the fallback
\* report (narratives = [], meta.status = "raw_signals_only", digest embedded).
C2_FailedRequestGivesFallback ==
    response.kind = "error" =>
        /\ ~AnalyzeRaised
        /\ requests = 1
        /\ AnalyzeReturned
        /\ IsFallback(analysis)

\* C3: when the credential (or the client package) is absent, analyze issues no request
\* and always returns a report with narratives = [], meta.status = "raw_signals_only"
\* and a non-empty embedded digest.
C3_UnavailableGivesFallback ==
    (Unavailable /\ (AnalyzeReturned \/ AnalyzeRaised)) =>
        /\ requests = 0
        /\ AnalyzeReturned
        /\ IsFallback(analysis)

\* C4: when a valid structured response with N narratives (1 <= N <= 8) is received, the
\* report analyze returns has exactly those N narratives in the same order, and its
\* meta.signals_analyzed is the count analyze computed from the bundle, whether the
\* response carried no meta, a meta without a count, or a meta with another count.
C4_AcceptedReportKeepsNarrativesSetsCount ==
    ValidResponse =>
        /\ AnalyzeReturned
        /\ analysis.val.narratives = ReceivedDoc.val.val.narratives
        /\ IsDict(analysis.val.meta)
        /\ "signals_analyzed" \in DOMAIN analysis.val.meta.val
        /\ analysis.val.meta.val.signals_analyzed = JNum(CountSignals(signals))

\* a response whose meta holds a count that is not the one of the bundle was accepted
C4_Witness ==
    /\ ValidResponse
    /\ AnalyzeReturned
    /\ Len(analysis.val.narratives.val) = MaxNarratives
    /\ "meta" \in DOMAIN ReceivedDoc.val.val
    /\ "signals_analyzed" \in DOMAIN ReceivedDoc.val.val.meta.val
    /\ ReceivedDoc.val.val.meta.val.signals_analyzed # JNum(CountSignals(signals))

\* C5 as stated: in every report returned after a valid structured response, every
\* narrative's category is one of DeFi, Infrastructure, Consumer, AI, DePIN, Gaming,
\* Payments, Social, whatever category values the service put in its response.
C5_CategoriesInEnumeration ==
    (ValidResponse /\ AnalyzeReturned) =>
        \A i \in 1..Len(analysis.val.narratives.val) :
            /\ analysis.val.narratives.val[i].val.category.type = "str"
            /\ analysis.val.narratives.val[i].val.category.val \in NarrativeCategories

\* C5, amended: in every report returned after a valid structured response, every
\* narrative's category is the value the service gave that narrative, so it is one of
\* the enumeration exactly when the service's value is.
C5_CategoriesAsReceived ==
    (ValidResponse /\ AnalyzeReturned) =>
        /\ Len(analysis.val.narratives.val) = Len(ReceivedDoc.val.val.narratives.val)
        /\ \A i \in 1..Len(analysis.val.narratives.val) :
             analysis.val.narratives.val[i].val.category
               = ReceivedDoc.val.val.narratives.val[i].val.category

\* a report was returned that holds a category outside the enumeration
C5_Witness ==
    /\ ValidResponse
    /\ AnalyzeReturned
    /\ \E i \in 1..Len(analysis.val.narratives.val) :
         analysis.val.narratives.val[i].val.category.val \notin NarrativeCategories

\* the sum of the lengths of the fields of the four categories that are sequences
SequenceLengths(sig) ==
    SumOver(BundleCategories \cap DOMAIN sig.val,
            [c \in BundleCategories \cap DOMAIN sig.val |->
               SumOver({f \in DOMAIN sig.val[c].val : sig.val[c].val[f].type = "list"},
                       [f \in DOMAIN sig.val[c].val |-> Len(sig.val[c].val[f].val)])])

\* C6: for every bundle, the signals_analyzed value placed in the returned report
\* (accepted or fallback) equals the sum of the lengths of every sequence-valued field
\* of the four categories, independent of any count the service reports.
C6_CountIsSumOfSequenceLengths ==
    AnalyzeReturned =>
        /\ IsDict(analysis.val.meta)
        /\ "signals_analyzed" \in DOMAIN analysis.val.meta.val
        /\ analysis.val.meta.val.signals_analyzed = JNum(SequenceLengths(signals))

\* a fallback report was returned for a bundle that some provider did not contribute to
C6_Witness ==
    /\ AnalyzeReturned
    /\ IsFallback(analysis)
    /\ upstream.down # {} /\ upstream.down # Providers
    /\ analysis.val.meta.val.signals_analyzed.val > 10

\* C7: a failure to persist one artifact never prevents the later stages: in a full
\* run, if writing the signal bundle fails, analysis still runs on the in-memory bundle
\* and the report and the composite are still written; if writing the report fails,
\* the composite is still derived and written.
C7_PersistenceFailureDoesNotStopRun ==
    /\ (mode = "--full" /\ WriteFailed("signals.json")) => AnalyzeReturned
    /\ WriteFailed("analysis.json") => siteFile.written


\* the part of the bundle that the call to provider p fills
PartOf(sig, p) ==
    CASE p = "tvl"          -> sig.val.onchain.val.tvl
      [] p = "protocols"    -> sig.val.onchain.val.top_protocols
      [] p = "yields"       -> sig.val.onchain.val.yields
      [] p = "stablecoins"  -> sig.val.onchain.val.stablecoins
      [] p = "rpc"          -> sig.val.onchain.val.network
      [] p = "trending_new" -> sig.val.github.val.trending_new
      [] p = "most_active"  -> sig.val.github.val.most_active
      [] p = "high_star"    -> sig.val.github.val.high_star
      [] p = "topics"       -> sig.val.github.val.ecosystem_topics
      [] p = "sol"          -> sig.val.market.val.sol
      [] p = "tokens"       -> sig.val.market.val.ecosystem_tokens
      [] p = "trending"     -> sig.val.market.val.trending
      [] p = "categories"   -> sig.val.market.val.categories
      [] p = "rss"          -> sig.val.social.val.ecosystem_articles
      [] p = "news"         -> sig.val.social.val.news_articles
      [] p = "governance"   -> sig.val.social.val.governance

\* an empty sequence, or a record holding only an error field
EmptyOrError(v) ==
    \/ IsList(v) /\ v.val = <<>>
    \/ IsDict(v) /\ DOMAIN v.val = {"error"}

\* one entry per topic searched, each with no repository
EmptyTopics(v) ==
    /\ IsList(v) /\ Len(v.val) = Len(EcosystemTopics)
    /\ \A i \in 1..Len(v.val) :
         /\ v.val[i].val.repo_count = JNum(0)
         /\ v.val[i].val.top_repos = JList(<<>>)
         /\ v.val[i].val.total_stars = JNum(0)

\* collect_all produced a bundle holding the four categories, each a record
HasFourCategories(sig) ==
    /\ IsDict(sig)
    /\ BundleCategories \subseteq DOMAIN sig.val
    /\ \A c \in BundleCategories : IsDict(sig.val[c])

\* C8 as stated: for any combination of providers failing their fetch, each adapter's
\* collect() returns a category record without raising (the failed part is an empty
\* sequence or a record holding only an error field), so collect_all still produces a
\* bundle with all four categories and the run is not aborted.
C8_FailedPartsEmptyOrError ==
    /\ ~(pc = "exited" /\ exit.stage = "collect")
    /\ signals # JNull =>
         /\ HasFourCategories(signals)
         /\ \A p \in upstream.down : EmptyOrError(PartOf(signals, p))

\* C8, amended: for any combination of providers failing their fetch, each adapter's
\* collect() returns a category record without raising, so collect_all still produces a
\* bundle with all four categories and the run is not aborted; the failed part is an
\* empty sequence or a record holding only an error field, except the topic breakdown,
\* which keeps one entry per topic, each with repo_count 0 and no repository.
C8_FetchFailuresDoNotAbort ==
    /\ ~(pc = "exited" /\ exit.stage = "collect")
    /\ signals # JNull =>
         /\ HasFourCategories(signals)
         /\ \A p \in upstream.down \ {"topics"} : EmptyOrError(PartOf(signals, p))
         /\ "topics" \in upstream.down => EmptyTopics(PartOf(signals, "topics"))

\* every provider failed and collect_all produced its bundle
C8_Witness ==
    /\ upstream.down = Providers
    /\ pc = "collected"
    /\ HasFourCategories(signals)
    /\ signalsFile.written

\* C9: in analyze-only mode with no persisted bundle, the process exits with a non-zero
\* status and an explicit message, before any analysis is run, any request is sent or any
\* artifact is written; no other exit of the three modes is a failed precondition.
C9_MissingBundleIsTheOnlyFatalPrecondition ==
    /\ (mode = "--analyze-only" /\ ~signalsFile.written) =>
         /\ pc \in {"main", "exited"}
         /\ signals = JNull /\ analysis = JNull /\ requests = 0
         /\ ~analysisFile.written /\ ~siteFile.written
         /\ pc = "exited" => (exit.code # 0 /\ exit.message # "" /\ exit.error = "")
    /\ (pc = "exited" /\ exit.code # 0 /\ exit.error = "") =>
         (mode = "--analyze-only" /\ ~signalsFile.written)

\* the analyze-only run ended on the missing bundle
C9_Witness ==
    /\ mode = "--analyze-only"
    /\ pc = "exited"
    /\ ~signalsFile.written
    /\ exit.code = 1
    /\ exit.message = "ERROR: No signals.json found. Run collection first."

\* C10: for any bundle, including one whose records lack fields or hold null values,
\* build_signal_digest is total and deterministic: it returns a digest without raising
\* and two calls on an identical bundle yield identical digests.
C10_DigestIsTotal ==
    signals # JNull =>
        /\ build_signal_digest(signals).raised = ""
        /\ build_signal_digest(signals) = build_signal_digest(signals)

\* the elements of parts, which "\n".join makes the lines of the digest (a heading
\* that begins with a line break brings an empty line with it)
DigestLines(sig) == Len(DigestParts(sig))

\* the bundle with every sequence of its category records cut to its first n entities
Capped(sig, n) ==
    JDict([c \in DOMAIN sig.val |->
             IF IsDict(sig.val[c])
             THEN JDict([f \in DOMAIN sig.val[c].val |->
                           IF IsList(sig.val[c].val[f])
                           THEN JList(Take(sig.val[c].val[f].val, n))
                           ELSE sig.val[c].val[f]])
             ELSE sig.val[c]])

\* C11: every sub-list rendered into the digest is truncated to a fixed cap (15 at
\* most), so the number of lines of the digest is bounded by a constant that does not
\* depend on the lengths of the bundle's sequences: the entities of a sequence beyond the
\* largest cap add no line, the digest has the lines of the bundle cut to the cap.
C11_DigestLinesBounded ==
    (pc = "digest" /\ analysis.type = "str") =>
        DigestLines(signals) = DigestLines(Capped(signals, LargestCap))

\* the entity with its description, topics and summary fields present and filled
Filled(e) ==
    IF ~IsDict(e) THEN e
    ELSE JDict([k \in DOMAIN e.val \cup {"description", "topics", "summary"} |->
                  CASE k = "topics" -> JList(<<JStr("solana")>>)
                    [] k \in {"description", "summary"} -> JStr("text")
                    [] OTHER -> e.val[k]])

\* the bundle with these fields filled in every entity of every list
WithTextFields(sig) ==
    JDict([c \in DOMAIN sig.val |->
             IF IsDict(sig.val[c])
             THEN JDict([f \in DOMAIN sig.val[c].val |->
                           IF IsList(sig.val[c].val[f])
                           THEN JList(MapSeq(sig.val[c].val[f].val, Filled))
                           ELSE sig.val[c].val[f]])
             ELSE sig.val[c]])

\* C12: an entity whose description, topics or summary is missing or empty contributes
\* as many digest lines as an entity that has them (a placeholder is rendered, no line is
\* omitted): the digest of a bundle has as many lines as the digest of the same bundle
\* with these fields filled.
C12_MissingFieldsKeepLines ==
    (pc = "digest" /\ analysis.type = "str") =>
        DigestLines(signals) = DigestLines(WithTextFields(signals))

\* what the collectors gathered during the run (and during the collect-only run that
\* left data/signals.json)
CollectedData == CollectSignals(upstream).val

\* C13: given identical collected data, an analyze-only run on the bundle that a
\* collect-only run persisted produces the same digest, and the same signals_analyzed
\* count, as a full run that analyzes the in-memory bundle: in both, the bundle handed to
\* the analysis gives the digest and the count of the collected data, and the report
\* returned carries them.
C13_ReloadedBundleGivesSameDigest ==
    /\ pc \in {"loaded", "collected"} =>
         /\ build_signal_digest(signals) = build_signal_digest(CollectedData)
         /\ CountSignals(signals) = CountSignals(CollectedData)
    /\ pc = "analyzed" =>
         /\ analysis.val.meta.val.signals_analyzed = JNum(CountSignals(CollectedData))
         /\ IsFallback(analysis) =>
              analysis.val.raw_digest = JStr(build_signal_digest(CollectedData).val)

\* an analyze-only run returned the fallback report for a reloaded bundle that every
\* provider contributed to
C13_Witness ==
    /\ mode = "--analyze-only"
    /\ pc = "analyzed"
    /\ upstream.down = {} /\ upstream.items = MaxItems
    /\ IsFallback(analysis)
    /\ analysis.val.raw_digest = JStr(build_signal_digest(CollectedData).val)
    /\ analysis.val.meta.val.signals_analyzed.val > 10

\* the smaller of two numbers
Min(a, b) == IF a < b THEN a ELSE b

\* the ecosystem articles and the news articles of the bundle, and the recent_news
\* highlight read back from site/data.json
EcosystemArticles == signals.val.social.val.ecosystem_articles.val

NewsArticles == signals.val.social.val.news_articles.val

RecentNews == JsonLoad(siteFile).val.highlights.val.recent_news.val

TvlScenario ==
    /\ IsDict(signals)
    /\ "onchain" \in DOMAIN signals.val
    /\ {"current_tvl", "tvl_14d_ago"} \subseteq DOMAIN signals.val.onchain.val.tvl.val
    /\ signals.val.onchain.val.tvl.val.current_tvl.val = 5000
    /\ signals.val.onchain.val.tvl.val.tvl_14d_ago.val = 4500

\* the positions in parts of the lines that report the 14-day change of the TVL
ChangeLines14d(parts) ==
    {i \in DOMAIN parts : Len(parts[i]) = 3 /\ parts[i][1] = Lit("  14d change: ")}

\* parts holds one such line, and it is rendered as text
OneChangeLine14d(parts, text) ==
    /\ Cardinality(ChangeLines14d(parts)) = 1
    /\ \A i \in ChangeLines14d(parts) : RenderLine(parts[i]) = [raised |-> "", val |-> text]

\* C15: for a bundle whose onchain.tvl has current_tvl = 5_000_000_000 and a 14-day-ago
\* value of 4_500_000_000, the 14-day change line of the digest shows +11.1%: the
\* percentage change from the old value to the current one, with one decimal and an
\* explicit sign.
C15_TvlChangeLineShowsPlus11_1 ==
    TvlScenario => OneChangeLine14d(DigestParts(signals), "  14d change: +11.1%")

\* the fallback report embeds the digest of such a bundle
C15_Witness ==
    /\ TvlScenario
    /\ pc = "analyzed"
    /\ IsFallback(analysis)
    /\ signals.val.onchain.val.tvl.val.change_14d_pct = JNum(1111)

\* the section headers of the digest, in the order onchain, developer, market, social
SectionHeaders ==
    <<"## ONCHAIN SIGNALS", "\n## DEVELOPER SIGNALS", "\n## MARKET SIGNALS",
      "\n## SOCIAL & NEWS SIGNALS">>

\* the positions in parts of the header h
HeaderAt(parts, h) == {i \in DOMAIN parts : Len(parts[i]) = 1 /\ parts[i] = Heading(h)}

\* each header is in parts once, the first opens the digest, and they follow in order
SectionsInOrder(parts) ==
    /\ \A k \in 1..4 : Cardinality(HeaderAt(parts, SectionHeaders[k])) = 1
    /\ HeaderAt(parts, SectionHeaders[1]) = {1}
    /\ \A k \in 1..3 :
         \A i \in HeaderAt(parts, SectionHeaders[k]), j \in HeaderAt(parts, SectionHeaders[k + 1]) :
            i < j

\* C16: the labeled sections of the digest always appear in the order onchain,
\* developer, market, social, all four headers present, whatever categories the bundle
\* lacks (the bundle is read by key, so the order of its categories plays no part).
C16_SectionsInFixedOrder ==
    IsDict(signals) =>
        /\ SectionsInOrder(DigestParts(signals))
        /\ pc = "digest" => (exit.error = "" /\ analysis.type = "str")

\* the digest was returned for a bundle that holds only the developer and social
\* categories
C16_Witness ==
    /\ pc = "digest"
    /\ BundleCategories \cap DOMAIN signals.val = {"github", "social"}
    /\ analysis.type = "str"
    /\ exit.error = ""

\* the positions of the fences of a text, and of the fences that the word json follows
Fences(text) == {i \in 1..Len(text) : text[i].kind = "fence"}

JsonMarkers(text) ==
    {i \in Fences(text) : i < Len(text) /\ text[i + 1].kind = "word" /\ text[i + 1].word = "json"}

\* the smallest number of a non-empty set
MinOf(S) == CHOOSE x \in S : \A y \in S : x <= y

\* the chunks after position i, up to the next fence or to the end of the text
UpToFence(text, i) ==
    SubSeq(text, i + 1, MinOf({j \in Fences(text) : j > i} \cup {Len(text) + 1}) - 1)

\* the content of the first block marked json if there is one, else the content of the
\* first fenced block if there is one, else the whole text
PreferredBlock(text) ==
    IF JsonMarkers(text) # {} THEN UpToFence(text, MinOf(JsonMarkers(text)) + 1)
    ELSE IF Fences(text) # {} THEN UpToFence(text, MinOf(Fences(text)))
    ELSE text

\* the block is one JSON document, a report with a list of narratives
HoldsReport(block) ==
    /\ Len(block) = 1
    /\ block[1].kind = "json"
    /\ IsDict(block[1].doc)
    /\ "narratives" \in DOMAIN block[1].doc.val
    /\ IsList(block[1].doc.val.narratives)

\* C17: the text the analyzer parses is the content of the first fenced block marked
\* json if there is one, even after a generic fenced block; otherwise the content of the
\* first generic fenced block; otherwise the whole response text.  When that text holds
\* a report, the report returned has its narratives; when it holds no document, the
\* fallback report is returned.
C17_PreferredBlockIsParsed ==
    (response.kind = "text" /\ pc = "analyzed") =>
        /\ HoldsReport(PreferredBlock(response.text)) =>
             analysis.val.narratives = PreferredBlock(response.text)[1].doc.val.narratives
        /\ JsonLoads(PreferredBlock(response.text)).raised # "" => IsFallback(analysis)

\* a response in which a generic fenced block holding one report comes before a block
\* marked json holding another, and the report returned has the narratives of the latter
C17_Witness ==
    /\ response.kind = "text"
    /\ pc = "analyzed"
    /\ JsonMarkers(response.text) # {}
    /\ MinOf(Fences(response.text)) < MinOf(JsonMarkers(response.text))
    /\ HoldsReport(UpToFence(response.text, MinOf(Fences(response.text))))
    /\ HoldsReport(PreferredBlock(response.text))
    /\ Len(UpToFence(response.text, MinOf(Fences(response.text)))[1].doc.val.narratives.val)
         # Len(PreferredBlock(response.text)[1].doc.val.narratives.val)
    /\ analysis.val.narratives = PreferredBlock(response.text)[1].doc.val.narratives


====
